---- MODULE Spec2Model ----
(***************************************************************************)
(* A model of the r3 job repository: the Repository facade of             *)
(* r3/repository.py (commit, remove, resolve, rebuild_index, membership)   *)
(* over the on-disk job store and the index.  The storage and index steps  *)
(* the facade delegates to are taken from the code r3/core.py holds for    *)
(* them (the copy-in of commit, the rmtree of remove, find, the index      *)
(* bookkeeping).                                                           *)
(*                                                                         *)
(* Representation.  A path is the sequence of its components; Path("")    *)
(* and Path(".") are both the empty sequence.  A string that holds a path  *)
(* in a YAML dict is the same sequence, except that "" is <<"">> and "."   *)
(* is <<".">>.  A job id (a uuid4 string) is one of the strings of Uuids,  *)
(* ordered as strings in the order of that tuple.  A committed_at value is *)
(* a whole number of seconds: strftime("%Y-%m-%d %H:%M:%S") drops the      *)
(* sub-second part, and strptime of such a string gives it back.  A file   *)
(* mode is the set of its permission bits.                                 *)
(***************************************************************************)
EXTENDS Integers, Sequences, FiniteSets, TLC

VARIABLES
    jobs,     \* <root>/jobs: job id -> the committed job directory
    index,    \* Repository._index: the ordered dict, a sequence of entries
    clock,    \* the wall clock, in seconds, when commit last read it
    used,     \* every job id uuid4 has handed out so far
    last,     \* the last call of the facade: what was asked and what came back
    root,     \* the repository path: whether it is there, and what is in it
    file,     \* <root>/index.yaml: whether it is there, and what is written in it
    writer,   \* the call that is under way, where calls are taken step by step
    crashes   \* how many calls were killed before they returned

vars == <<jobs, index, clock, used, last, root, file, writer, crashes>>

(***************************************************************************)
(* Bounds of the model.                                                    *)
(***************************************************************************)
NumIds == 3
MaxClock == 1

Uuids == <<"u1", "u2", "u3", "u4", "u5", "u6">>
JobIds == {Uuids[i] : i \in 1..NumIds}
IdOrd(id) == CHOOSE i \in 1..Len(Uuids) : Uuids[i] = id

None == "None"
OK == "ok"

(***************************************************************************)
(* The messages of the ValueErrors the code raises.                        *)
(***************************************************************************)
MissingDependency == "Missing dependency"
InvalidQuery == "Invalid query"
Unresolvable == "Cannot resolve dependency"
EmptyMax == "max() arg is an empty sequence"
UnrecognisedUrl == "Unrecognized git url"
NotContained == "Job is not contained in this repository."
HasDependents == "Cannot remove job since other jobs depend on it: "

(***************************************************************************)
(* Sequences.                                                              *)
(***************************************************************************)
Range(s) == {s[i] : i \in 1..Len(s)}

RECURSIVE SortedIds(_)
\* The job ids of S in ascending (string) order.
SortedIds(S) ==
    IF S = {} THEN <<>>
    ELSE LET m == CHOOSE x \in S : \A y \in S : IdOrd(x) <= IdOrd(y)
         IN <<m>> \o SortedIds(S \ {m})

Perms(S) ==
    {p \in [1..Cardinality(S) -> S] : \A i, j \in 1..Cardinality(S) : p[i] = p[j] => i = j}

(***************************************************************************)
(* Strings of queries.  A query string is named by its text; Chars gives   *)
(* its characters, on which strip, split and startswith work.              *)
(***************************************************************************)
Chars ==
    [q \in {"#a", "#a #b", "#c", "a", "", "#a  #b", " #a", "#a #b "} |->
        CASE q = "#a" -> <<"#", "a">>
          [] q = "#a #b" -> <<"#", "a", " ", "#", "b">>
          [] q = "#c" -> <<"#", "c">>
          [] q = "a" -> <<"a">>
          [] q = "" -> <<>>
          [] q = "#a  #b" -> <<"#", "a", " ", " ", "#", "b">>
          [] q = " #a" -> <<" ", "#", "a">>
          [] q = "#a #b " -> <<"#", "a", " ", "#", "b", " ">>]

\* the characters str.strip() takes off
Whitespace == {" ", "\t", "\n", "\r"}

RECURSIVE LStrip(_)
LStrip(s) == IF s # <<>> /\ Head(s) \in Whitespace THEN LStrip(Tail(s)) ELSE s

RECURSIVE RStrip(_)
RStrip(s) == IF s # <<>> /\ s[Len(s)] \in Whitespace THEN RStrip(SubSeq(s, 1, Len(s) - 1)) ELSE s

\* str.strip()
Strip(s) == RStrip(LStrip(s))

RECURSIVE SplitFrom(_, _)
SplitFrom(s, cur) ==
    IF s = <<>> THEN <<cur>>
    ELSE IF Head(s) = " " THEN <<cur>> \o SplitFrom(Tail(s), <<>>)
    ELSE SplitFrom(Tail(s), Append(cur, Head(s)))

\* str.split(" ")
Split(s) == SplitFrom(s, <<>>)

\* tag.startswith("#")
StartsWithHash(tok) == tok # <<>> /\ Head(tok) = "#"

(***************************************************************************)
(* Paths.                                                                  *)
(***************************************************************************)
\* Path(s) for the string s of a dict
PathOf(s) == IF s \in {<<"">>, <<".">>} THEN <<>> ELSE s
\* str(p) for a Path p
StrOf(p) == IF p = <<>> THEN <<".">> ELSE p

R3Yaml == <<"r3.yaml">>
MetadataYaml == <<"metadata.yaml">>
Output == <<"output">>

(***************************************************************************)
(* The dependency classes.                                                 *)
(***************************************************************************)
JobDependency(job, destination, source, query, query_all) ==
    [kind |-> "job", job |-> job, destination |-> PathOf(destination),
     source |-> PathOf(source), query |-> query, query_all |-> query_all]

GitDependency(repository, commit, destination, source) ==
    [kind |-> "git", repository |-> repository, commit |-> commit,
     destination |-> PathOf(destination), source |-> PathOf(source)]

QueryDependency(query, destination, source) ==
    [kind |-> "query", query |-> query, destination |-> PathOf(destination),
     source |-> PathOf(source)]

QueryAllDependency(query_all, destination) ==
    [kind |-> "query_all", query_all |-> query_all,
     destination |-> PathOf(destination), source |-> PathOf(<<".">>)]

\* dict_.get(key, default)
Get(dict, key, default) == IF key \in DOMAIN dict THEN dict[key] ELSE default

\* a from_dict that looks for the key "query" before the key "job"
FromDictQueryFirst(dict) ==
    IF "query" \in DOMAIN dict
    THEN QueryDependency(dict.query, dict.destination, Get(dict, "source", <<".">>))
    ELSE IF "job" \in DOMAIN dict
    THEN JobDependency(dict.job, dict.destination, Get(dict, "source", <<"">>),
                       Get(dict, "query", None), Get(dict, "query_all", None))
    ELSE IF "query_all" \in DOMAIN dict
    THEN QueryAllDependency(dict.query_all, dict.destination)
    ELSE GitDependency(dict.repository, dict.commit, dict.destination,
                       Get(dict, "source", <<"">>))

\* Dependency.from_dict
FromDict(dict) ==
    IF "job" \in DOMAIN dict
    THEN JobDependency(dict.job, dict.destination, Get(dict, "source", <<"">>),
                       Get(dict, "query", None), Get(dict, "query_all", None))
    ELSE IF "query" \in DOMAIN dict
    THEN QueryDependency(dict.query, dict.destination, Get(dict, "source", <<".">>))
    ELSE IF "query_all" \in DOMAIN dict
    THEN QueryAllDependency(dict.query_all, dict.destination)
    ELSE GitDependency(dict.repository, dict.commit, dict.destination,
                       Get(dict, "source", <<"">>))

\* a to_dict that writes a JobDependency that came from a query as the query
ToDictWithoutJob(dep) ==
    IF dep.kind = "job" /\ dep.query # None
    THEN [query |-> dep.query, source |-> StrOf(dep.source),
          destination |-> StrOf(dep.destination)]
    ELSE IF dep.kind = "job"
    THEN [job |-> dep.job, source |-> StrOf(dep.source),
          destination |-> StrOf(dep.destination)]
    ELSE [repository |-> dep.repository, commit |-> dep.commit,
          source |-> StrOf(dep.source), destination |-> StrOf(dep.destination)]

\* to_dict of the four classes
ToDict(dep) ==
    CASE dep.kind = "job" ->
           LET base == [job |-> dep.job, source |-> StrOf(dep.source),
                        destination |-> StrOf(dep.destination)]
               withQ == IF dep.query # None
                        THEN [k \in DOMAIN base \cup {"query"} |->
                                 IF k = "query" THEN dep.query ELSE base[k]]
                        ELSE base
           IN IF dep.query_all # None
              THEN [k \in DOMAIN withQ \cup {"query_all"} |->
                       IF k = "query_all" THEN dep.query_all ELSE withQ[k]]
              ELSE withQ
      [] dep.kind = "git" ->
           [repository |-> dep.repository, commit |-> dep.commit,
            source |-> StrOf(dep.source), destination |-> StrOf(dep.destination)]
      [] dep.kind = "query" ->
           [query |-> dep.query, source |-> StrOf(dep.source),
            destination |-> StrOf(dep.destination)]
      [] dep.kind = "query_all" ->
           [query_all |-> dep.query_all, destination |-> StrOf(dep.destination)]

\* Dependency.is_resolved
IsResolved(dep) == dep.kind \in {"job", "git"}

(***************************************************************************)
(* File modes.  A mode is the set of its permission bits.                  *)
(***************************************************************************)
S_IWUSR == "uw"
S_IWGRP == "gw"
S_IWOTH == "ow"

\* what open(path, "w") and os.makedirs give a new entry under the umask 022,
\* and the mode of the files of a working directory, which shutil.copy keeps
NewFileMode == {"ur", "uw", "gr", "or"}
NewDirMode == {"ur", "uw", "ux", "gr", "gx", "or", "ox"}
SourceFileMode == {"ur", "uw", "gr", "gw", "or"}

\* a stripping that forgets the write bit of the group
RemoveOwnerAndOtherWrite(mode) == (mode \ {S_IWOTH}) \ {S_IWUSR}

RemoveWritePermissions(mode) == ((mode \ {S_IWOTH}) \ {S_IWGRP}) \ {S_IWUSR}

AddWritePermission(mode) == mode \cup {S_IWOTH, S_IWGRP, S_IWUSR}

(***************************************************************************)
(* The mirrored git repositories under <root>/git: they are not changed by *)
(* any operation modelled here.  One repository is mirrored, with one      *)
(* commit whose tree holds src/lib.py.                                     *)
(***************************************************************************)
GoodUrl == "https://github.com/o/n"
BadUrl == "https://gitlab.com/o/n"
GoodCommit == "c1"

\* GitDependency.repository_path: the two patterns match github.com urls only
RepositoryPath(repository) ==
    IF repository \in {"https://github.com/o/n", "https://github.com/o/n.git",
                       "git@github.com:o/n", "git@github.com:o/n.git"}
    THEN [err |-> OK, val |-> <<"git", "github.com", "o", "n">>]
    ELSE [err |-> UnrecognisedUrl, val |-> <<>>]

GitMirror ==
    [r \in {<<"git", "github.com", "o", "n">>} |->
        [c \in {GoodCommit} |-> {<<"src">>, <<"src", "lib.py">>}]]

\* r3.utils.git_path_exists
GitPathExists(repository, commit, path) ==
    IF repository \notin DOMAIN GitMirror THEN FALSE
    ELSE IF path = <<>> THEN commit \in DOMAIN GitMirror[repository]
    ELSE /\ commit \in DOMAIN GitMirror[repository]
         /\ path \in GitMirror[repository][commit]

(***************************************************************************)
(* The index: an ordered dict job id -> {tags, datetime, dependencies},    *)
(* kept as the sequence of its items in iteration order.                   *)
(***************************************************************************)
IndexKeys(idx) == {idx[i].id : i \in 1..Len(idx)}

IndexEntry(idx, id) == idx[CHOOSE i \in 1..Len(idx) : idx[i].id = id]

\* self._index[key] = entry
IndexSet(idx, entry) ==
    IF entry.id \in IndexKeys(idx)
    THEN [i \in 1..Len(idx) |-> IF idx[i].id = entry.id THEN entry ELSE idx[i]]
    ELSE Append(idx, entry)

\* index.yaml as yaml.dump writes it and yaml.safe_load reads it: the keys
\* come back sorted
LoadIndex(idx) ==
    LET keys == SortedIds(IndexKeys(idx))
    IN [i \in 1..Len(keys) |-> IndexEntry(idx, keys[i])]

\* no index.yaml: a repository nothing was committed to yet
NoFile == [exists |-> FALSE, entries |-> <<>>, complete |-> FALSE]

\* Repository._save_index: index.yaml once open, yaml.dump and close are over
Dumped(idx) == [exists |-> TRUE, entries |-> LoadIndex(idx), complete |-> TRUE]

\* open(index_path, "w"): the file is there and has no byte
Truncated == [exists |-> TRUE, entries |-> <<>>, complete |-> FALSE]

\* the getter of Repository._index on first use: dict() when there is no
\* index.yaml, else yaml.safe_load of it, which is None for a file without
\* a byte
ReadIndex(f) ==
    IF ~f.exists THEN <<>>
    ELSE IF f = Truncated THEN None
    ELSE f.entries

\* a removal that leaves the entry of the job in the index
IndexDelKeepsEntry(idx, id) == idx

\* del self._index[key]
IndexDel(idx, id) == SelectSeq(idx, LAMBDA e : e.id # id)

\* dict()
EmptyDict == [k \in {} |-> <<>>]

\* Job._load_config of a job directory: the dict of r3.yaml when the file is
\* there, with dependencies set to [] by default
LoadConfig(dir) ==
    IF R3Yaml \in DOMAIN dir.tree THEN dir.config ELSE [dependencies |-> <<>>]

\* Job.metadata of a job directory: the dict of metadata.yaml when the file
\* is there
LoadMetadata(dir) ==
    IF MetadataYaml \in DOMAIN dir.tree THEN dir.metadata ELSE EmptyDict

\* Job.datetime of a job directory: committed_at, or else the st_ctime of
\* the directory
Datetime(dir) ==
    IF "committed_at" \in DOMAIN LoadMetadata(dir)
    THEN LoadMetadata(dir).committed_at
    ELSE dir.ctime

\* Job.datetime of the job at jobs/<id>
JobDatetime(id) == Datetime(jobs[id])

\* an index entry that leaves out the tags of the job
AddJobToIndexWithoutTags(idx, store, id) ==
    IndexSet(idx, [id |-> id,
                   tags |-> <<>>,
                   datetime |-> Datetime(store[id]),
                   dependencies |-> LoadConfig(store[id]).dependencies])

\* Repository._add_job_to_index, for the job at jobs/<id>
AddJobToIndex(idx, store, id) ==
    IndexSet(idx, [id |-> id,
                   tags |-> Get(LoadMetadata(store[id]), "tags", <<>>),
                   datetime |-> Datetime(store[id]),
                   dependencies |-> LoadConfig(store[id]).dependencies])

\* a choice of the first job found, whatever its datetime
FirstFound(ids, best) == best

\* max(results, key=...): the first of the greatest
RECURSIVE FirstMax(_, _)
FirstMax(ids, best) ==
    IF ids = <<>> THEN best
    ELSE FirstMax(Tail(ids),
                  IF JobDatetime(Head(ids)) > JobDatetime(best) THEN Head(ids) ELSE best)

\* the jobs in the order the index gave them
AsFound(ids) == ids

\* sorted(results, key=...): stable
RECURSIVE InsertSorted(_, _)
InsertSorted(sorted, id) ==
    IF sorted = <<>> THEN <<id>>
    ELSE IF JobDatetime(sorted[Len(sorted)]) <= JobDatetime(id) THEN Append(sorted, id)
    ELSE Append(InsertSorted(SubSeq(sorted, 1, Len(sorted) - 1), id), sorted[Len(sorted)])

RECURSIVE SortedByDatetime(_)
SortedByDatetime(ids) ==
    IF ids = <<>> THEN <<>>
    ELSE InsertSorted(SortedByDatetime(SubSeq(ids, 1, Len(ids) - 1)), ids[Len(ids)])

\* Repository.find: the ids of the jobs found, or the ValueError of max()
Find(tags, latest) ==
    LET hits == SelectSeq(index, LAMBDA e : Range(tags) \subseteq Range(e.tags))
        results == [i \in 1..Len(hits) |-> hits[i].id]
    IN IF latest
       THEN IF results = <<>> THEN [err |-> EmptyMax, val |-> <<>>]
            ELSE [err |-> OK, val |-> <<FirstMax(Tail(results), Head(results))>>]
       ELSE [err |-> OK, val |-> SortedByDatetime(results)]

\* a search for dependents that finds none
FindNoDependents(id) == <<>>

\* Index.find_dependents: the jobs of the index with a dependency on the job
FindDependents(id) ==
    LET hits == SelectSeq(index, LAMBDA e :
                    \E i \in 1..Len(e.dependencies) :
                        Get(e.dependencies[i], "job", None) = id)
    IN [i \in 1..Len(hits) |-> hits[i].id]

(***************************************************************************)
(* Resolution of queries.                                                  *)
(***************************************************************************)
\* a reading of the tokens that takes each for a tag, whatever it starts with
QueryTagsUnchecked(query) ==
    LET tags == Split(Strip(Chars[query]))
    IN [err |-> OK, val |-> [i \in 1..Len(tags) |-> IF tags[i] = <<>> THEN <<>> ELSE Tail(tags[i])]]

\* the tags of a query string, or the ValueError
QueryTags(query) ==
    LET tags == Split(Strip(Chars[query]))
    IN IF \A i \in 1..Len(tags) : StartsWithHash(tags[i])
       THEN [err |-> OK, val |-> [i \in 1..Len(tags) |-> Tail(tags[i])]]
       ELSE [err |-> InvalidQuery, val |-> <<>>]

\* Repository._resolve_query_dependency
ResolveQueryDependency(dependency) ==
    LET tags == QueryTags(dependency.query)
        result == Find(tags.val, TRUE)
    IN IF tags.err # OK THEN [err |-> tags.err, val |-> <<>>]
       ELSE IF result.err # OK THEN [err |-> result.err, val |-> <<>>]
       ELSE IF Len(result.val) < 1 THEN [err |-> Unresolvable, val |-> <<>>]
       ELSE [err |-> OK,
             val |-> <<JobDependency(result.val[1], dependency.destination,
                                     dependency.source, dependency.query, None)>>]

\* a resolution that puts every job found at the destination itself
ResolveQueryAllWithoutSuffix(dependency) ==
    LET tags == QueryTags(dependency.query_all)
        result == Find(tags.val, FALSE)
    IN IF tags.err # OK THEN [err |-> tags.err, val |-> <<>>]
       ELSE IF Len(result.val) < 1 THEN [err |-> Unresolvable, val |-> <<>>]
       ELSE [err |-> OK,
             val |-> [i \in 1..Len(result.val) |->
                        JobDependency(result.val[i], dependency.destination,
                                      <<"">>, None, dependency.query_all)]]

\* Repository._resolve_query_all_dependency
ResolveQueryAllDependency(dependency) ==
    LET tags == QueryTags(dependency.query_all)
        result == Find(tags.val, FALSE)
    IN IF tags.err # OK THEN [err |-> tags.err, val |-> <<>>]
       ELSE IF Len(result.val) < 1 THEN [err |-> Unresolvable, val |-> <<>>]
       ELSE [err |-> OK,
             val |-> [i \in 1..Len(result.val) |->
                        JobDependency(result.val[i],
                                      dependency.destination \o <<result.val[i]>>,
                                      <<"">>, None, dependency.query_all)]]

\* Repository.resolve of a dependency: the list of what it resolves to
Resolve(item) ==
    IF IsResolved(item) THEN [err |-> OK, val |-> <<item>>]
    ELSE IF item.kind = "query" THEN ResolveQueryDependency(item)
    ELSE ResolveQueryAllDependency(item)

\* a loop that puts what each dependency resolves to before what is there
RECURSIVE ResolveJobPrepending(_)
ResolveJobPrepending(dependencies) ==
    IF dependencies = <<>> THEN [err |-> OK, val |-> <<>>]
    ELSE LET first == Resolve(Head(dependencies))
             rest == ResolveJobPrepending(Tail(dependencies))
         IN IF first.err # OK THEN [err |-> first.err, val |-> <<>>]
            ELSE IF rest.err # OK THEN [err |-> rest.err, val |-> <<>>]
            ELSE [err |-> OK, val |-> rest.val \o first.val]

\* Repository._resolve_job: the resolved dependency list of the job
RECURSIVE ResolveJob(_)
ResolveJob(dependencies) ==
    IF dependencies = <<>> THEN [err |-> OK, val |-> <<>>]
    ELSE LET first == Resolve(Head(dependencies))
             rest == ResolveJob(Tail(dependencies))
         IN IF first.err # OK THEN [err |-> first.err, val |-> <<>>]
            ELSE IF rest.err # OK THEN [err |-> rest.err, val |-> <<>>]
            ELSE [err |-> OK, val |-> first.val \o rest.val]

(***************************************************************************)
(* Membership.                                                             *)
(***************************************************************************)
\* Repository.__contains__ of a job: its id is set and jobs/<id> is there
ContainsJob(id) == id # None /\ id \in DOMAIN jobs

\* a test that takes every path of a job to be there
AnyJobPathExists(job, source) == TRUE

\* (self.path / "jobs" / job / source).exists()
JobPathExists(job, source) == job \in DOMAIN jobs /\ source \in DOMAIN jobs[job].tree

\* Repository.__contains__ of a resolved dependency
ContainsResolved(dependency) ==
    IF dependency.kind = "job"
    THEN [err |-> OK, val |-> JobPathExists(dependency.job, dependency.source)]
    ELSE LET path == RepositoryPath(dependency.repository)
         IN IF path.err # OK THEN [err |-> path.err, val |-> FALSE]
            ELSE [err |-> OK,
                  val |-> GitPathExists(path.val, dependency.commit, dependency.source)]

\* Repository.__contains__ of a dependency: a ValueError of resolve is caught
Contains(item) ==
    IF IsResolved(item) THEN ContainsResolved(item)
    ELSE LET resolved == Resolve(item)
         IN IF resolved.err # OK THEN [err |-> OK, val |-> FALSE]
            ELSE [err |-> OK,
                  val |-> \A i \in 1..Len(resolved.val) :
                             ContainsResolved(resolved.val[i]).val]

(***************************************************************************)
(* The files of a directory.  A directory is given by the paths of its     *)
(* files; a pattern is the sequence of its characters, on which startswith *)
(* and the slice work; iterdir yields the children of a directory in an    *)
(* order of its own, given here as a sequence of all names.                *)
(***************************************************************************)
NotImplementedError == "Only absolute ignore patterns (starting with /) are supported for now."

\* the characters of the names of files and directories
NameChars ==
    [n \in {"run.py", "code", "dat", "data", "r3.yaml", "prev", "lib", "deps",
            "u1", "u2", "u3", "."} |->
        CASE n = "run.py" -> <<"r", "u", "n", ".", "p", "y">>
          [] n = "code" -> <<"c", "o", "d", "e">>
          [] n = "dat" -> <<"d", "a", "t">>
          [] n = "data" -> <<"d", "a", "t", "a">>
          [] n = "r3.yaml" -> <<"r", "3", ".", "y", "a", "m", "l">>
          [] n = "prev" -> <<"p", "r", "e", "v">>
          [] n = "lib" -> <<"l", "i", "b">>
          [] n = "deps" -> <<"d", "e", "p", "s">>
          [] n = "u1" -> <<"u", "1">>
          [] n = "u2" -> <<"u", "2">>
          [] n = "u3" -> <<"u", "3">>
          [] n = "." -> <<".">>]

\* f"/{path.name}"
SlashName(name) == <<"/">> \o NameChars[name]

\* f"/{path}" for a relative path
RECURSIVE SlashPath(_)
SlashPath(path) ==
    IF path = <<>> THEN SlashName(".")
    ELSE IF Len(path) = 1 THEN SlashName(path[1])
    ELSE SlashName(Head(path)) \o SlashPath(Tail(path))

\* pattern.startswith(prefix)
StartsWith(pattern, prefix) ==
    Len(pattern) >= Len(prefix) /\ SubSeq(pattern, 1, Len(prefix)) = prefix

\* _is_ignored
IsIgnored(name, ignore_patterns) == \E pattern \in ignore_patterns : pattern = SlashName(name)

\* the list comprehension of _find_files: pattern[len(prefix):] of the
\* patterns that start with the prefix
Sliced(ignore_patterns, prefix) ==
    {SubSeq(pattern, Len(prefix) + 1, Len(pattern)) :
        pattern \in {p \in ignore_patterns : StartsWith(p, prefix)}}

\* path.iterdir() of the directory dir: its children, in the order given
IterDir(files, dir, order) ==
    SelectSeq(order, LAMBDA name :
        \E f \in files : Len(f) > Len(dir) /\ SubSeq(f, 1, Len(dir) + 1) = Append(dir, name))

\* _find_files: the check of the patterns, then the loop over the children.
\* The loop assigns the sliced patterns to ignore_patterns itself, so the
\* children that come after a directory are tested against the sliced ones.
RECURSIVE FindFilesIn(_, _, _, _), FindFilesLoop(_, _, _, _, _)
FindFilesIn(files, dir, ignore_patterns, order) ==
    IF \E pattern \in ignore_patterns : ~StartsWith(pattern, <<"/">>)
    THEN [err |-> NotImplementedError, val |-> <<>>]
    ELSE FindFilesLoop(files, dir, IterDir(files, dir, order), ignore_patterns, order)

FindFilesLoop(files, dir, children, ignore_patterns, order) ==
    IF children = <<>> THEN [err |-> OK, val |-> <<>>]
    ELSE LET name == Head(children)
             child == Append(dir, name)
         IN IF IsIgnored(name, ignore_patterns)
            THEN FindFilesLoop(files, dir, Tail(children), ignore_patterns, order)
            ELSE IF child \in files
            THEN LET rest == FindFilesLoop(files, dir, Tail(children), ignore_patterns, order)
                 IN [err |-> rest.err,
                     val |-> IF rest.err = OK THEN <<child>> \o rest.val ELSE <<>>]
            ELSE LET sliced == Sliced(ignore_patterns, SlashName(name))
                     below == FindFilesIn(files, child, sliced, order)
                     rest == FindFilesLoop(files, dir, Tail(children), sliced, order)
                 IN IF below.err # OK THEN below
                    ELSE IF rest.err # OK THEN rest
                    ELSE [err |-> OK, val |-> below.val \o rest.val]

\* r3.utils.find_files: the files of the directory, relative to it
FindFiles(files, ignore_patterns, order) == FindFilesIn(files, <<>>, ignore_patterns, order)

(***************************************************************************)
(* Commit.  A working directory is a record: metadata (the dict of its     *)
(* metadata.yaml), files (the paths Job.files gives besides r3.yaml and    *)
(* metadata.yaml) and deps (the dependency dicts of its r3.yaml).          *)
(***************************************************************************)
\* Job.dependencies of a working directory: Job._load_dependencies
LoadDependencies(w) == [i \in 1..Len(w.deps) |-> FromDict(w.deps[i])]

\* Job.is_resolved
JobIsResolved(w) == \A i \in 1..Len(w.deps) : IsResolved(LoadDependencies(w)[i])

\* Repository.resolve of a job: its dependencies and the dicts of its config
ResolveWork(w) ==
    IF JobIsResolved(w)
    THEN [err |-> OK, deps |-> LoadDependencies(w), dicts |-> w.deps]
    ELSE LET resolved == ResolveJob(LoadDependencies(w))
         IN [err |-> resolved.err, deps |-> resolved.val,
             dicts |-> [i \in 1..Len(resolved.val) |-> ToDict(resolved.val[i])]]

\* a commit that does not look for its dependencies
CheckNothing(deps) == [err |-> OK, val |-> <<>>]

\* the loop of commit over job.dependencies: the first dependency that is not
\* in the repository, or whose membership test raises
RECURSIVE CheckDependencies(_)
CheckDependencies(deps) ==
    IF deps = <<>> THEN [err |-> OK, val |-> <<>>]
    ELSE LET c == Contains(Head(deps))
         IN IF c.err # OK THEN [err |-> c.err, val |-> <<Head(deps)>>]
            ELSE IF ~c.val THEN [err |-> MissingDependency, val |-> <<Head(deps)>>]
            ELSE CheckDependencies(Tail(deps))

\* r3.utils.hash_str, and r3.utils.hash_file of a file with these bytes:
\* the SHA-256 of the bytes, taken to have no collisions
HashStr(string) == <<"sha256", string>>

\* the bytes of the files of the working directories, by path
FileContent ==
    [p \in {<<"run.py">>, <<"code", "run.py">>, <<"output", "result.txt">>,
            <<"dat", "run.py">>, <<"data", "run.py">>} |->
        CASE p = <<"run.py">> -> "print('hi')"
          [] p = <<"code", "run.py">> -> "pass"
          [] p = <<"dat", "run.py">> -> "import dat"
          [] p = <<"data", "run.py">> -> "print('hi')"
          [] p = <<"output", "result.txt">> -> "42"]

\* r3.utils.hash_file of a file of the working directory
HashFile(path) == HashStr(FileContent[path])

\* Dependency.hash of a JobDependency and of a GitDependency
DependencyHash(dep) ==
    IF dep.kind = "job"
    THEN HashStr(<<"jobs/", dep.job, "/", StrOf(dep.source)>>)
    ELSE HashStr(<<RepositoryPath(dep.repository).val, "@", dep.commit, "/",
                   StrOf(dep.source)>>)

\* every key hashes may get, in the order sorted() gives strings
KeysInOrder ==
    <<<<"code", "run.py">>, <<"dat", "run.py">>, <<"data">>, <<"data", "run.py">>,
      <<"deps", "u1">>, <<"deps", "u2">>,
      <<"deps", "u3">>, <<"deps", "u4">>, <<"deps", "u5">>, <<"deps", "u6">>,
      <<"lib">>, <<"output", "result.txt">>, <<"prev">>, <<"run.py">>>>

\* sorted(hashes)
SortedKeys(keys) == SelectSeq(KeysInOrder, LAMBDA k : k \in keys)

\* Job.hash(recompute=True): the dict it leaves in config["hashes"].  A
\* dependency whose destination is the path of a file replaces its entry.
JobHashes(files, dependencies) ==
    LET destinations == {StrOf(dependencies[i].destination) : i \in 1..Len(dependencies)}
        last_at(d) == CHOOSE i \in 1..Len(dependencies) :
                         /\ StrOf(dependencies[i].destination) = d
                         /\ \A j \in (i + 1)..Len(dependencies) :
                               StrOf(dependencies[j].destination) # d
        entry(k) == IF k \in destinations THEN DependencyHash(dependencies[last_at(k)])
                    ELSE HashFile(k)
        keys == SortedKeys(files \cup destinations)
        lines == [i \in 1..Len(keys) |-> <<keys[i], entry(keys[i])>>]
    IN [k \in files \cup destinations \cup {<<".">>} |->
           IF k = <<".">> THEN HashStr(lines) ELSE entry(k)]

\* the directories os.makedirs(target.parent) creates for the files
ParentDirs(files) == UNION {{SubSeq(f, 1, k) : k \in 1..(Len(f) - 1)} : f \in files}

\* the mode of r3.yaml, of metadata.yaml, of a copied file and of the job
\* directory when the copy-in of commit is over
SealedConfigMode == RemoveWritePermissions(NewFileMode)
WrittenMetadataMode == NewFileMode
SealedFileMode == RemoveWritePermissions(SourceFileMode)
SealedJobDirMode == RemoveWritePermissions(NewDirMode)

\* a copy-in that leaves out the files of subdirectories
CommittedTreeTopLevel(files) ==
    [p \in {<<>>, Output, R3Yaml, MetadataYaml} \cup {f \in files : Len(f) = 1} |->
        CASE p = <<>> -> [type |-> "dir", mode |-> SealedJobDirMode]
          [] p = Output -> [type |-> "dir", mode |-> NewDirMode]
          [] p = R3Yaml -> [type |-> "file", mode |-> SealedConfigMode]
          [] p = MetadataYaml -> [type |-> "file", mode |-> WrittenMetadataMode]
          [] OTHER -> [type |-> "file", mode |-> SealedFileMode,
                       content |-> FileContent[p]]]

\* jobs/<id> as the copy-in of commit leaves it
CommittedTree(files) ==
    [p \in {<<>>, Output, R3Yaml, MetadataYaml} \cup files \cup ParentDirs(files) |->
        CASE p = <<>> -> [type |-> "dir", mode |-> SealedJobDirMode]
          [] p = Output -> [type |-> "dir", mode |-> NewDirMode]
          [] p = R3Yaml -> [type |-> "file", mode |-> SealedConfigMode]
          [] p = MetadataYaml -> [type |-> "file", mode |-> WrittenMetadataMode]
          [] p \in files -> [type |-> "file", mode |-> SealedFileMode,
                              content |-> FileContent[p]]
          [] OTHER -> [type |-> "dir", mode |-> NewDirMode]]

\* job.metadata["committed_at"] = datetime.now().strftime(DATE_FORMAT)
StampedMetadata(metadata, now) ==
    [k \in DOMAIN metadata \cup {"committed_at"} |->
        IF k = "committed_at" THEN now ELSE metadata[k]]

\* a commit whose hashing does not skip metadata.yaml
CommittedJobHashingMetadata(w, dependencies, dicts, now) ==
    [config |-> [dependencies |-> dicts,
                 hashes |-> [k \in DOMAIN JobHashes(w.files, dependencies) \cup {MetadataYaml} |->
                               IF k = MetadataYaml
                               THEN HashStr(StampedMetadata(w.metadata, now))
                               ELSE JobHashes(w.files, dependencies)[k]]],
     metadata |-> StampedMetadata(w.metadata, now),
     tree |-> CommittedTree(w.files),
     ctime |-> now]

\* the committed job: its r3.yaml, its metadata.yaml, its directory tree and
\* the time of the last change of its directory
CommittedJob(w, dependencies, dicts, now) ==
    [config |-> [dependencies |-> dicts, hashes |-> JobHashes(w.files, dependencies)],
     metadata |-> StampedMetadata(w.metadata, now),
     tree |-> CommittedTree(w.files),
     ctime |-> now]

\* what datetime.now() may give: the clock does not run backwards
Nows == {t \in {clock, clock + 1} : t <= MaxClock}

Put(store, id, job) == [k \in DOMAIN store \cup {id} |-> IF k = id THEN job ELSE store[k]]

\* a removal that takes every job directory with it
DropAll(store, id) == [k \in {} |-> store[k]]

Drop(store, id) == [k \in DOMAIN store \ {id} |-> store[k]]

R3_FORMAT_VERSION == "1.0.0-beta.5"

\* the repository path when it is not there
NoPath == [exists |-> FALSE, entries |-> {}, version |-> ""]

\* the path as Repository.init leaves it
NewRepository ==
    [exists |-> TRUE, entries |-> {"git", "jobs", "r3.yaml"}, version |-> R3_FORMAT_VERSION]

\* no call is under way
Idle == [op |-> None, pc |-> None]

PathExists == "Path exists already: "

\* Repository.__init__: the path is a directory with an r3.yaml in it
Opened == root.exists /\ "r3.yaml" \in root.entries

\* a call that is taken as a whole: the repository is open and no call is
\* under way, before it and after it
Atomically == Opened /\ writer = Idle /\ UNCHANGED <<root, writer, crashes>>

\* an init that makes a new repository of a path that is there already
RepositoryInitOverwrites ==
    /\ writer = Idle
    /\ root' = NewRepository
    /\ jobs' = [k \in {} |-> <<>>]
    /\ index' = <<>>
    /\ file' = NoFile
    /\ last' = [op |-> "init", arg |-> None, err |-> OK, out |-> <<>>]
    /\ UNCHANGED <<clock, used, writer, crashes>>

\* Repository.init
RepositoryInit ==
    /\ writer = Idle
    /\ IF root.exists
       THEN /\ last' = [op |-> "init", arg |-> None, err |-> PathExists, out |-> <<>>]
            /\ UNCHANGED <<root, jobs, index, file>>
       ELSE /\ root' = NewRepository
            /\ jobs' = [k \in {} |-> <<>>]
            /\ index' = <<>>
            /\ file' = NoFile
            /\ last' = [op |-> "init", arg |-> None, err |-> OK, out |-> <<>>]
    /\ UNCHANGED <<clock, used, writer, crashes>>

\* a commit that writes the job directory before it looks for the dependencies
CommitWritesFirst(w) ==
    /\ Atomically
    /\ \E resolved \in {ResolveWork(w)} : \E checked \in {CheckDependencies(resolved.deps)} :
          IF resolved.err # OK
          THEN /\ last' = [op |-> "commit", arg |-> w, err |-> resolved.err, out |-> <<>>]
               /\ UNCHANGED <<jobs, index, clock, used, file>>
          ELSE \E id \in JobIds \ used, now \in Nows :
                  /\ jobs' = Put(jobs, id, CommittedJob(w, resolved.deps, resolved.dicts, now))
                  /\ used' = used \cup {id}
                  /\ clock' = now
                  /\ IF checked.err # OK
                     THEN /\ UNCHANGED <<index, file>>
                          /\ last' = [op |-> "commit", arg |-> w, err |-> checked.err,
                                      out |-> checked.val]
                     ELSE /\ index' = AddJobToIndex(index, jobs', id)
                          /\ file' = Dumped(index')
                          /\ last' = [op |-> "commit", arg |-> w, err |-> OK, out |-> <<id>>]

\* Repository.commit
Commit(w) ==
    /\ Atomically
    /\ \E resolved \in {ResolveWork(w)} : \E checked \in {CheckDependencies(resolved.deps)} :
          IF resolved.err # OK
          THEN /\ last' = [op |-> "commit", arg |-> w, err |-> resolved.err, out |-> <<>>]
               /\ UNCHANGED <<jobs, index, clock, used, file>>
          ELSE IF checked.err # OK
          THEN /\ last' = [op |-> "commit", arg |-> w, err |-> checked.err,
                           out |-> checked.val]
               /\ UNCHANGED <<jobs, index, clock, used, file>>
          ELSE \E id \in JobIds \ used, now \in Nows :
                  /\ jobs' = Put(jobs, id, CommittedJob(w, resolved.deps, resolved.dicts, now))
                  /\ index' = AddJobToIndex(index, jobs', id)
                  /\ file' = Dumped(index')
                  /\ used' = used \cup {id}
                  /\ clock' = now
                  /\ last' = [op |-> "commit", arg |-> w, err |-> OK, out |-> <<id>>]

(***************************************************************************)
(* Remove.                                                                 *)
(***************************************************************************)
\* separator.join(items), on sequences of message parts
RECURSIVE Join(_, _)
Join(separator, items) ==
    IF items = <<>> THEN <<>>
    ELSE IF Len(items) = 1 THEN <<items[1]>>
    ELSE <<Head(items)>> \o separator \o Join(separator, Tail(items))

\* a message that lists no job
MessageWithoutIds(dependents) == <<HasDependents>>

\* the message of the ValueError of remove: the two adjacent string literals
\* are one literal, on which join is called
DependentsMessage(dependents) == Join(<<HasDependents>>, dependents)

PermissionError == "PermissionError"

\* a removal that does not set the write bits again
StillSealed(tree) == tree

\* the loop over job.files and the call for job.path: the write bits of the
\* files and of the job directory are set again
Unsealed(tree) ==
    [p \in DOMAIN tree |->
        IF tree[p].type = "file" \/ p = <<>>
        THEN [tree[p] EXCEPT !.mode = AddWritePermission(tree[p].mode)]
        ELSE tree[p]]

\* shutil.rmtree deletes the entries of a directory its user may write to
RmtreeAllowed(tree) == \A p \in DOMAIN tree : tree[p].type = "dir" => S_IWUSR \in tree[p].mode

\* Repository.remove
Remove(id) ==
    /\ Atomically
    /\ IF ~ContainsJob(id)
       THEN /\ last' = [op |-> "remove", arg |-> id, err |-> NotContained, out |-> <<>>]
            /\ UNCHANGED <<jobs, index, clock, used, file>>
       ELSE IF Len(FindDependents(id)) > 0
       THEN /\ last' = [op |-> "remove", arg |-> id, err |-> HasDependents,
                        out |-> DependentsMessage(FindDependents(id))]
            /\ UNCHANGED <<jobs, index, clock, used, file>>
       ELSE IF ~RmtreeAllowed(Unsealed(jobs[id].tree))
       THEN /\ jobs' = [jobs EXCEPT ![id].tree = Unsealed(jobs[id].tree)]
            /\ last' = [op |-> "remove", arg |-> id, err |-> PermissionError, out |-> <<>>]
            /\ UNCHANGED <<index, clock, used, file>>
       ELSE /\ jobs' = Drop(jobs, id)
            /\ index' = IndexDel(index, id)
            /\ file' = Dumped(index')
            /\ last' = [op |-> "remove", arg |-> id, err |-> OK, out |-> <<>>]
            /\ UNCHANGED <<clock, used>>

\* a loop over the jobs that stops one job early
AddAllButLast(idx, store, order) ==
    idx \o [i \in 1..(Len(order) - 1) |-> AddJobToIndex(<<>>, store, order[i])[1]]

(***************************************************************************)
(* The index as a whole.                                                   *)
(***************************************************************************)
RECURSIVE AddAll(_, _, _)
AddAll(idx, store, order) ==
    IF order = <<>> THEN idx
    ELSE AddAll(AddJobToIndex(idx, store, Head(order)), store, Tail(order))

\* Repository.rebuild_index: jobs() yields the entries of jobs/ in the order
\* of iterdir, which is any order
RebuildIndex ==
    /\ Atomically
    /\ \E order \in Perms(DOMAIN jobs) :
           /\ index' = AddAll(<<>>, jobs, order)
           /\ file' = Dumped(index')
           /\ last' = [op |-> "rebuild_index", arg |-> None, err |-> OK, out |-> <<>>]
           /\ UNCHANGED <<jobs, clock, used>>

\* A new Repository instance on the same path (each command of the command
\* line makes one): the index is read from index.yaml on first use.
Reopen ==
    /\ Atomically
    /\ index' = ReadIndex(file)
    /\ last' = [op |-> "open", arg |-> None, err |-> OK, out |-> <<>>]
    /\ UNCHANGED <<jobs, clock, used, file>>

(***************************************************************************)
(* Checkout.  The destination is a tree as a job directory is; an entry may *)
(* also be a symbolic link, with the path it points to below the            *)
(* repository, or what was moved out of a clone of a git repository.        *)
(***************************************************************************)
NotFound == "Cannot find job: "

\* the children of jobs/<id> the loop of _checkout_job copies, with all that
\* is below them: shutil.copy and shutil.copytree keep bytes and modes
CopiedChildren(tree) ==
    {p \in DOMAIN tree : p # <<>> /\ Head(p) \notin {"r3.yaml", "metadata.yaml", "output"}}

\* a checkout that copies the output directory as it copies the files
CheckoutWithOutputCopied(dest, id) ==
    LET tree == jobs[id].tree
        kept == {p \in DOMAIN tree : p # <<>> /\ Head(p) \notin {"r3.yaml", "metadata.yaml"}}
    IN [p \in DOMAIN dest \cup kept |-> IF p \in kept THEN tree[p] ELSE dest[p]]

\* os.makedirs(path), the copies, and the link for the output directory
CheckoutFiles(dest, id) ==
    LET tree == jobs[id].tree
        copied == CopiedChildren(tree)
    IN [p \in DOMAIN dest \cup copied \cup {Output} |->
           IF p = Output THEN [type |-> "link", target |-> <<"jobs", id>> \o Output]
           ELSE IF p \in copied THEN tree[p]
           ELSE dest[p]]

\* os.makedirs(destination.parent, exist_ok=True)
WithParents(dest, path) ==
    [p \in DOMAIN dest \cup ParentDirs({path}) |->
        IF p \in DOMAIN dest THEN dest[p] ELSE [type |-> "dir", mode |-> NewDirMode]]

\* a checkout that asks the index again for the job of a query
CheckoutJobDependencyOfLatest(dest, dependency) ==
    LET again == IF dependency.query = None THEN [err |-> Unresolvable, val |-> <<>>]
                 ELSE ResolveQueryDependency(
                          QueryDependency(dependency.query, dependency.destination,
                                          dependency.source))
        job == IF again.err = OK THEN again.val[1].job ELSE dependency.job
        made == WithParents(dest, dependency.destination)
    IN [p \in DOMAIN made \cup {dependency.destination} |->
           IF p = dependency.destination
           THEN [type |-> "link", target |-> <<"jobs", job>> \o dependency.source]
           ELSE made[p]]

\* Repository._checkout_job_dependency
CheckoutJobDependency(dest, dependency) ==
    LET made == WithParents(dest, dependency.destination)
    IN [p \in DOMAIN made \cup {dependency.destination} |->
           IF p = dependency.destination
           THEN [type |-> "link", target |-> <<"jobs", dependency.job>> \o dependency.source]
           ELSE made[p]]

\* Repository._checkout_git_dependency: the source of the commit, fetched
\* into a temporary directory, is moved to the destination
CheckoutGitDependency(dest, dependency) ==
    [p \in DOMAIN dest \cup {dependency.destination} |->
        IF p = dependency.destination
        THEN [type |-> "git", repository |-> RepositoryPath(dependency.repository).val,
              commit |-> dependency.commit, source |-> dependency.source]
        ELSE dest[p]]

\* the loop of _checkout_job over job.dependencies
RECURSIVE CheckoutDependencies(_, _)
CheckoutDependencies(dest, dependencies) ==
    IF dependencies = <<>> THEN dest
    ELSE LET first == Head(dependencies)
         IN CheckoutDependencies(
                IF first.kind = "job" THEN CheckoutJobDependency(dest, first)
                ELSE CheckoutGitDependency(dest, first),
                Tail(dependencies))

\* Job(jobs/<id>) as Repository.resolve returns it: a job that is resolved is
\* returned as it is, with the dependencies of its r3.yaml
ResolvedJob(id) ==
    ResolveWork([metadata |-> jobs[id].metadata, files |-> {},
                 deps |-> jobs[id].config.dependencies])

\* Repository._checkout_job into a path that is not there yet
CheckoutJob(id) ==
    LET made == [p \in {<<>>} |-> [type |-> "dir", mode |-> NewDirMode]]
    IN CheckoutDependencies(CheckoutFiles(made, id), ResolvedJob(id).deps)

\* Repository.checkout of a job: resolve, then the checkout of the storage
Checkout(id) ==
    /\ Atomically
    /\ /\ IF ~ContainsJob(id)
          THEN last' = [op |-> "checkout", arg |-> id, err |-> NotFound, out |-> <<>>]
          ELSE \E resolved \in {ResolvedJob(id)} :
                  IF resolved.err # OK
                  THEN last' = [op |-> "checkout", arg |-> id, err |-> resolved.err,
                                out |-> <<>>]
                  ELSE last' = [op |-> "checkout", arg |-> id, err |-> OK,
                                out |-> CheckoutJob(id)]
       /\ UNCHANGED <<jobs, index, clock, used, file>>

(***************************************************************************)
(* The inputs.                                                             *)
(***************************************************************************)
TagA == <<"a">>
TagB == <<"b">>

NoMetadata == [k \in {} |-> <<>>]

RunPy == <<"run.py">>
CodeRunPy == <<"code", "run.py">>
OutputResult == <<"output", "result.txt">>

QueryA == [query |-> "#a", source |-> <<"output">>, destination |-> <<"prev">>]
QueryAB == [query |-> "#a #b", source |-> CodeRunPy, destination |-> <<"data">>]
QueryC == [query |-> "#c", destination |-> <<"prev">>]
QueryBad == [query |-> "a", destination |-> <<"prev">>]
AllA == [query_all |-> "#a", destination |-> <<"deps">>]
AllAB == [query_all |-> "#a #b", destination |-> <<"deps">>]
AllC == [query_all |-> "#c", destination |-> <<"deps">>]
AllBad == [query_all |-> "a", destination |-> <<"deps">>]
QueryBlank == [query |-> "", destination |-> <<"prev">>]
QueryTwoSpaces == [query |-> "#a  #b", destination |-> <<"prev">>]
QueryLeadingSpace == [query |-> " #a", destination |-> <<"prev">>]
AllBlank == [query_all |-> "", destination |-> <<"deps">>]
AllTwoSpaces == [query_all |-> "#a  #b", destination |-> <<"deps">>]
AllTrailingSpace == [query_all |-> "#a #b ", destination |-> <<"deps">>]

\* the query dependencies resolve is looked at for
QueryDicts ==
    {QueryA, QueryAB, QueryC, QueryBad, AllA, AllAB, AllC, AllBad,
     QueryBlank, QueryTwoSpaces, QueryLeadingSpace,
     AllBlank, AllTwoSpaces, AllTrailingSpace}

\* a dependency on the whole of a job, named by its id
JobDict(id) == [job |-> id, destination |-> <<"data">>]

GitOk ==
    [repository |-> GoodUrl, commit |-> GoodCommit, source |-> <<"src">>,
     destination |-> <<"lib">>]
GitNoSource ==
    [repository |-> GoodUrl, commit |-> GoodCommit, source |-> <<"nosuch">>,
     destination |-> <<"lib">>]
GitBadUrl ==
    [repository |-> BadUrl, commit |-> GoodCommit, source |-> <<"src">>,
     destination |-> <<"lib">>]

\* the dependency lists of the working directories that have dependencies
DepLists ==
    {<<QueryA>>, <<QueryC>>, <<QueryBad>>, <<AllA>>, <<AllC>>,
     <<JobDict(Uuids[1])>>,
     <<GitOk, JobDict(Uuids[1])>>,
     <<GitNoSource>>,
     <<GitBadUrl, JobDict(Uuids[1])>>}

\* the working directories: three without dependencies (one of them with a
\* file in an output directory of its own, one with r3.yaml only), and one
\* for each dependency list
WorkJobs ==
    {[metadata |-> [tags |-> <<TagA>>], files |-> {RunPy}, deps |-> <<>>],
     [metadata |-> [tags |-> <<TagA, TagB>>], files |-> {RunPy, CodeRunPy, OutputResult},
      deps |-> <<>>],
     [metadata |-> NoMetadata, files |-> {}, deps |-> <<>>]}
    \cup {[metadata |-> NoMetadata, files |-> {RunPy}, deps |-> d] : d \in DepLists}

(***************************************************************************)
(* The specification.                                                      *)
(***************************************************************************)
\* a directory that is no repository
ForeignDirectory == [exists |-> TRUE, entries |-> {}, version |-> ""]

\* Before Repository.init: the path is not there, or it is a directory that
\* is no repository.
Init ==
    /\ root \in {NoPath, ForeignDirectory}
    /\ jobs = [k \in {} |-> <<>>]
    /\ index = <<>>
    /\ file = NoFile
    /\ writer = Idle
    /\ crashes = 0
    /\ clock = 0
    /\ used = {}
    /\ last = [op |-> None, arg |-> None, err |-> OK, out |-> <<>>]

Next ==
    \/ RepositoryInit
    \/ \E w \in WorkJobs : Commit(w)
    \/ \E id \in JobIds \cup {None} : Remove(id)
    \/ RebuildIndex
    \/ Reopen
    \/ \E id \in JobIds \cup {None} : Checkout(id)

Spec == Init /\ [][Next]_vars

(***************************************************************************)
(* The calls step by step.  One process at a time calls the repository; a  *)
(* call goes through the steps of its code, and the process may be killed  *)
(* between any two of them.  What is on the disk between two steps is what  *)
(* a reader sees who looks at that moment.                                 *)
(***************************************************************************)
MaxCrashes == 1
MaxStepJobs == 2

NoneIndex == "'NoneType' object"
KeyError == "KeyError"

\* yaml.safe_load of an index.yaml without a byte is None
IndexUnreadable(f) == f = Truncated

\* a commit that removes the write bits of the job directory first
CommitOrderSealingFirst ==
    <<"makedirs", "seal_dir", "output", "config", "seal_config", "metadata", "copy",
      "add_index">>

\* the steps of commit after the checks, in the order of the code
CommitOrder ==
    <<"makedirs", "output", "config", "seal_config", "metadata", "copy", "seal_dir",
      "add_index">>

\* the step that follows a step of commit; the loop over the files is left
\* out when there is no file
After(pc, left) ==
    LET i == CHOOSE k \in 1..Len(CommitOrder) : CommitOrder[k] = pc
        next == IF i = Len(CommitOrder) THEN "open" ELSE CommitOrder[i + 1]
    IN IF next = "copy" /\ left = {}
       THEN (IF i + 1 = Len(CommitOrder) THEN "open" ELSE CommitOrder[i + 2])
       ELSE next

\* a call that has started
Call(op, pc, arg) ==
    [op |-> op, pc |-> pc, arg |-> arg, id |-> None, now |-> 0, deps |-> <<>>,
     dicts |-> <<>>, left |-> {}, cur |-> <<>>, before |-> NoFile]

\* the call raises: nothing more is done
Raise(err) ==
    /\ last' = [op |-> writer.op, arg |-> writer.arg, err |-> err, out |-> <<>>]
    /\ writer' = Idle

WithEntry(tree, path, entry) ==
    [p \in DOMAIN tree \cup {path} |-> IF p = path THEN entry ELSE tree[p]]

\* os.makedirs(target_path): a directory with nothing in it
NewJobDir(now) ==
    [config |-> EmptyDict, metadata |-> EmptyDict,
     tree |-> [p \in {<<>>} |-> [type |-> "dir", mode |-> NewDirMode]],
     ctime |-> now]

\* Repository.commit up to the point where it starts to write: resolve, the
\* loop over the dependencies, uuid4(), the hashes and datetime.now()
BeginCommit(w) ==
    /\ Opened /\ writer = Idle
    /\ \E resolved \in {ResolveWork(w)} : \E checked \in {CheckDependencies(resolved.deps)} :
          IF resolved.err # OK
          THEN /\ last' = [op |-> "commit", arg |-> w, err |-> resolved.err, out |-> <<>>]
               /\ UNCHANGED <<writer, clock, used>>
          ELSE IF checked.err # OK
          THEN /\ last' = [op |-> "commit", arg |-> w, err |-> checked.err,
                           out |-> checked.val]
               /\ UNCHANGED <<writer, clock, used>>
          ELSE \E id \in JobIds \ used, now \in Nows :
                  /\ Cardinality(used) < MaxStepJobs
                  /\ writer' = [Call("commit", CommitOrder[1], w) EXCEPT
                                   !.id = id, !.now = now, !.deps = resolved.deps,
                                   !.dicts = resolved.dicts, !.left = w.files]
                  /\ used' = used \cup {id}
                  /\ clock' = now
                  /\ UNCHANGED last
    /\ UNCHANGED <<jobs, index, file, root, crashes>>

\* os.makedirs(target_path)
MakeDirs ==
    /\ writer.op = "commit" /\ writer.pc = "makedirs"
    /\ jobs' = Put(jobs, writer.id, NewJobDir(writer.now))
    /\ writer' = [writer EXCEPT !.pc = After("makedirs", writer.left)]
    /\ UNCHANGED <<index, clock, used, last, root, file, crashes>>

\* os.makedirs(target_path / "output")
MakeOutput ==
    /\ writer.op = "commit" /\ writer.pc = "output"
    /\ jobs' = [jobs EXCEPT ![writer.id].tree =
                   WithEntry(@, Output, [type |-> "dir", mode |-> NewDirMode])]
    /\ writer' = [writer EXCEPT !.pc = After("output", writer.left)]
    /\ UNCHANGED <<index, clock, used, last, root, file, crashes>>

\* yaml.dump(job._config, config_file)
WriteConfig ==
    /\ writer.op = "commit" /\ writer.pc = "config"
    /\ jobs' = [jobs EXCEPT
                   ![writer.id].tree =
                       WithEntry(@, R3Yaml, [type |-> "file", mode |-> NewFileMode]),
                   ![writer.id].config =
                       [dependencies |-> writer.dicts,
                        hashes |-> JobHashes(writer.arg.files, writer.deps)]]
    /\ writer' = [writer EXCEPT !.pc = After("config", writer.left)]
    /\ UNCHANGED <<index, clock, used, last, root, file, crashes>>

\* _remove_write_permissions(target_path / "r3.yaml")
SealConfig ==
    /\ writer.op = "commit" /\ writer.pc = "seal_config"
    /\ jobs' = [jobs EXCEPT ![writer.id].tree[R3Yaml].mode = RemoveWritePermissions(@)]
    /\ writer' = [writer EXCEPT !.pc = After("seal_config", writer.left)]
    /\ UNCHANGED <<index, clock, used, last, root, file, crashes>>

\* yaml.dump(job.metadata, metadata_file)
WriteMetadata ==
    /\ writer.op = "commit" /\ writer.pc = "metadata"
    /\ jobs' = [jobs EXCEPT
                   ![writer.id].tree =
                       WithEntry(@, MetadataYaml, [type |-> "file", mode |-> NewFileMode]),
                   ![writer.id].metadata = StampedMetadata(writer.arg.metadata, writer.now)]
    /\ writer' = [writer EXCEPT !.pc = After("metadata", writer.left)]
    /\ UNCHANGED <<index, clock, used, last, root, file, crashes>>

\* a turn of the loop over job.files, up to shutil.copy: the files come in
\* the order of the dict, which is the order find_files met them in
CopyFile ==
    /\ writer.op = "commit" /\ writer.pc = "copy"
    /\ \E f \in writer.left :
          /\ jobs' = [jobs EXCEPT ![writer.id].tree =
                         WithEntry(WithParents(@, f), f,
                                   [type |-> "file", mode |-> SourceFileMode,
                                    content |-> FileContent[f]])]
          /\ writer' = [writer EXCEPT !.pc = "seal_file", !.cur = f]
    /\ UNCHANGED <<index, clock, used, last, root, file, crashes>>

\* the end of the turn: _remove_write_permissions(target)
SealFile ==
    /\ writer.op = "commit" /\ writer.pc = "seal_file"
    /\ jobs' = [jobs EXCEPT ![writer.id].tree[writer.cur].mode = RemoveWritePermissions(@)]
    /\ writer' = [writer EXCEPT
                     !.left = @ \ {writer.cur},
                     !.cur = <<>>,
                     !.pc = IF writer.left = {writer.cur}
                            THEN After("copy", {}) ELSE "copy"]
    /\ UNCHANGED <<index, clock, used, last, root, file, crashes>>

\* _remove_write_permissions(target_path)
SealDir ==
    /\ writer.op = "commit" /\ writer.pc = "seal_dir"
    /\ jobs' = [jobs EXCEPT ![writer.id].tree[<<>>].mode = RemoveWritePermissions(@)]
    /\ writer' = [writer EXCEPT !.pc = After("seal_dir", writer.left)]
    /\ UNCHANGED <<index, clock, used, last, root, file, crashes>>

\* self._add_job_to_index(committed_job), in a process whose index is None
\* when index.yaml had no byte
AddToIndex ==
    /\ writer.op = "commit" /\ writer.pc = "add_index"
    /\ IF IndexUnreadable(file)
       THEN Raise(NoneIndex) /\ UNCHANGED index
       ELSE /\ index' = AddJobToIndex(index, jobs, writer.id)
            /\ writer' = [writer EXCEPT !.pc = After("add_index", writer.left)]
            /\ UNCHANGED last
    /\ UNCHANGED <<jobs, clock, used, root, file, crashes>>

\* Repository._save_index: open(self._index_path, "w")
OpenIndex ==
    /\ writer.pc = "open"
    /\ file' = Truncated
    /\ writer' = [writer EXCEPT !.pc = "dump", !.before = file]
    /\ UNCHANGED <<jobs, index, clock, used, last, root, crashes>>

\* Repository._save_index: yaml.dump writes the entries, key after key, and
\* the file is closed after the last
DumpEntry ==
    /\ writer.pc = "dump"
    /\ LET all == LoadIndex(index)
           n == Len(file.entries)
       IN IF n + 1 >= Len(all)
          THEN /\ file' = Dumped(index)
               /\ writer' = [writer EXCEPT !.pc = "return"]
          ELSE /\ file' = [file EXCEPT !.entries = Append(@, all[n + 1])]
               /\ UNCHANGED writer
    /\ UNCHANGED <<jobs, index, clock, used, last, root, crashes>>

\* the call returns
Return ==
    /\ writer.pc = "return"
    /\ last' = [op |-> writer.op, arg |-> writer.arg, err |-> OK,
                out |-> IF writer.op = "commit" THEN <<writer.id>> ELSE <<>>]
    /\ writer' = Idle
    /\ UNCHANGED <<jobs, index, clock, used, root, file, crashes>>

\* Repository.remove up to the point where it starts to write
BeginRemove(id) ==
    /\ Opened /\ writer = Idle
    /\ IF ~ContainsJob(id)
       THEN /\ last' = [op |-> "remove", arg |-> id, err |-> NotContained, out |-> <<>>]
            /\ UNCHANGED writer
       ELSE IF IndexUnreadable(file)
       THEN /\ last' = [op |-> "remove", arg |-> id, err |-> NoneIndex, out |-> <<>>]
            /\ UNCHANGED writer
       ELSE IF Len(FindDependents(id)) > 0
       THEN /\ last' = [op |-> "remove", arg |-> id, err |-> HasDependents,
                        out |-> DependentsMessage(FindDependents(id))]
            /\ UNCHANGED writer
       ELSE /\ writer' = [Call("remove", "unseal", id) EXCEPT !.id = id]
            /\ UNCHANGED last
    /\ UNCHANGED <<jobs, index, clock, used, root, file, crashes>>

\* the loop of remove over job.files and the call for job.path
Unseal ==
    /\ writer.op = "remove" /\ writer.pc = "unseal"
    /\ jobs' = [jobs EXCEPT ![writer.id].tree = Unsealed(@)]
    /\ writer' = [writer EXCEPT !.pc = "rmtree"]
    /\ UNCHANGED <<index, clock, used, last, root, file, crashes>>

\* shutil.rmtree(job.path)
Rmtree ==
    /\ writer.op = "remove" /\ writer.pc = "rmtree"
    /\ IF ~RmtreeAllowed(jobs[writer.id].tree)
       THEN Raise(PermissionError) /\ UNCHANGED jobs
       ELSE /\ jobs' = Drop(jobs, writer.id)
            /\ writer' = [writer EXCEPT !.pc = "del_index"]
            /\ UNCHANGED last
    /\ UNCHANGED <<index, clock, used, root, file, crashes>>

\* del self._index[job.id]
DelIndex ==
    /\ writer.op = "remove" /\ writer.pc = "del_index"
    /\ IF writer.id \notin IndexKeys(index)
       THEN Raise(KeyError) /\ UNCHANGED index
       ELSE /\ index' = IndexDel(index, writer.id)
            /\ writer' = [writer EXCEPT !.pc = "open"]
            /\ UNCHANGED last
    /\ UNCHANGED <<jobs, clock, used, root, file, crashes>>

\* Repository.rebuild_index is called
BeginRebuild ==
    /\ Opened /\ writer = Idle
    /\ writer' = Call("rebuild_index", "scan", None)
    /\ UNCHANGED <<jobs, index, clock, used, last, root, file, crashes>>

\* self._index = dict() and the loop over self.jobs()
Scan ==
    /\ writer.op = "rebuild_index" /\ writer.pc = "scan"
    /\ \E order \in Perms(DOMAIN jobs) : index' = AddAll(<<>>, jobs, order)
    /\ writer' = [writer EXCEPT !.pc = "open"]
    /\ UNCHANGED <<jobs, clock, used, last, root, file, crashes>>

\* The process is killed.  The next call is made by a new process, which
\* reads the index from index.yaml.
Crash ==
    /\ writer # Idle
    /\ crashes < MaxCrashes
    /\ crashes' = crashes + 1
    /\ writer' = Idle
    /\ index' = ReadIndex(file)
    /\ last' = [op |-> "crash", arg |-> writer, err |-> OK, out |-> <<>>]
    /\ UNCHANGED <<jobs, clock, used, root, file>>

\* the working directories committed step by step: one with a file, one
\* with a file in a subdirectory too, one with a dependency on a job
StepJobs ==
    {[metadata |-> [tags |-> <<TagA>>], files |-> {RunPy}, deps |-> <<>>],
     [metadata |-> [tags |-> <<TagA, TagB>>], files |-> {RunPy, CodeRunPy},
      deps |-> <<>>],
     [metadata |-> NoMetadata, files |-> {RunPy}, deps |-> <<JobDict(Uuids[1])>>]}

\* a repository Repository.init has made
InitSteps ==
    /\ root = NewRepository
    /\ jobs = [k \in {} |-> <<>>]
    /\ index = <<>>
    /\ file = NoFile
    /\ writer = Idle
    /\ crashes = 0
    /\ clock = 0
    /\ used = {}
    /\ last = [op |-> "init", arg |-> None, err |-> OK, out |-> <<>>]

NextSteps ==
    \/ \E w \in StepJobs : BeginCommit(w)
    \/ MakeDirs
    \/ MakeOutput
    \/ WriteConfig
    \/ SealConfig
    \/ WriteMetadata
    \/ CopyFile
    \/ SealFile
    \/ SealDir
    \/ AddToIndex
    \/ OpenIndex
    \/ DumpEntry
    \/ Return
    \/ \E id \in JobIds : BeginRemove(id)
    \/ Unseal
    \/ Rmtree
    \/ DelIndex
    \/ BeginRebuild
    \/ Scan
    \/ Crash

SpecSteps == InitSteps /\ [][NextSteps]_vars

(***************************************************************************)
(* The commit of directories.  A directory is a record: metadata, tree     *)
(* (the paths of its files) and deps; Job.files of it is what find_files   *)
(* finds.                                                                  *)
(***************************************************************************)
\* Job._load_files: find_files with the destination of each dependency
\* ignored; the r3.yaml of these directories has no ignore key
LoadFiles(tree, dependencies, order) ==
    FindFiles(tree,
              {SlashPath(dependencies[i].destination) : i \in 1..Len(dependencies)},
              order)

\* the directories: a job with one file; a job that was checked out with a
\* dependency at data/, next to a directory of its own; the same without
\* that directory; the same with a directory dat
Directories ==
    {[metadata |-> [tags |-> <<TagA>>], tree |-> {RunPy}, deps |-> <<>>],
     [metadata |-> NoMetadata,
      tree |-> {R3Yaml, RunPy, CodeRunPy, <<"data", "run.py">>},
      deps |-> <<JobDict(Uuids[1])>>],
     [metadata |-> NoMetadata, tree |-> {R3Yaml, RunPy, <<"data", "run.py">>},
      deps |-> <<JobDict(Uuids[1])>>],
     [metadata |-> NoMetadata, tree |-> {R3Yaml, <<"dat", "run.py">>},
      deps |-> <<JobDict(Uuids[1])>>]}

\* the orders iterdir may yield the names of these directories in
DirectoryOrders ==
    {[i \in 1..5 |-> p[i]] : p \in Perms({"r3.yaml", "run.py", "code", "dat", "data"})}

\* Repository.commit of Job(path): job.hash(recompute=True) is the first to
\* ask for job.files, after resolve and the loop over the dependencies; what
\* find_files raises there ends the commit before anything is written
CommitDirectory(d) ==
    \E order \in DirectoryOrders :
    \E resolved \in {ResolveWork([metadata |-> d.metadata, files |-> {}, deps |-> d.deps])} :
    \E found \in {LoadFiles(d.tree, resolved.deps, order)} :
    \E w \in {[metadata |-> d.metadata,
                files |-> Range(found.val) \ {R3Yaml, MetadataYaml},
                deps |-> d.deps]} :
        IF resolved.err = OK /\ CheckDependencies(resolved.deps).err = OK /\ found.err # OK
        THEN /\ Atomically
             /\ last' = [op |-> "commit", arg |-> w, err |-> found.err, out |-> <<>>]
             /\ UNCHANGED <<jobs, index, clock, used, file>>
        ELSE Commit(w)

NextFiles == \E d \in Directories : CommitDirectory(d)

SpecFiles == InitSteps /\ [][NextFiles]_vars

(***************************************************************************)
(* The calls of find_files.                                                *)
(***************************************************************************)
DatRunPy == <<"dat", "run.py">>
DataRunPy == <<"data", "run.py">>

\* the directories find_files is called on: some of four files, one at the
\* top and one in each of three directories
FindTrees == SUBSET {RunPy, CodeRunPy, DatRunPy, DataRunPy} \ {{}}

\* the ignore patterns: up to two of five absolute patterns
FindPatterns ==
    {ps \in SUBSET {SlashPath(<<"data">>), SlashPath(<<"code">>), SlashPath(RunPy),
                    SlashPath(CodeRunPy), SlashPath(DatRunPy)} : Cardinality(ps) <= 2}

\* the orders iterdir may yield the names in
Orders == {[i \in 1..4 |-> p[i]] : p \in Perms({"run.py", "code", "dat", "data"})}

\* a directory, patterns and an order of iterdir, with no call made yet
InitFind ==
    /\ root = NewRepository
    /\ jobs = [k \in {} |-> <<>>]
    /\ index = <<>>
    /\ file = NoFile
    /\ writer = Idle
    /\ crashes = 0
    /\ clock = 0
    /\ used = {}
    /\ \E files \in FindTrees, ignore_patterns \in FindPatterns, order \in Orders :
          last = [op |-> None,
                  arg |-> [path |-> files, ignore_patterns |-> ignore_patterns,
                           order |-> order],
                  err |-> OK, out |-> <<>>]

\* the call of r3.utils.find_files on them
CallFindFiles ==
    /\ last.op = None
    /\ \E found \in {FindFiles(last.arg.path, last.arg.ignore_patterns, last.arg.order)} :
          last' = [op |-> "find_files", arg |-> last.arg, err |-> found.err,
                   out |-> found.val]
    /\ UNCHANGED <<jobs, index, clock, used, root, file, writer, crashes>>

NextFind == CallFindFiles

SpecFind == InitFind /\ [][NextFind]_vars

(***************************************************************************)
(* What the properties below speak of.                                     *)
(***************************************************************************)
\* the dependency dicts of the manifest jobs/<id>/r3.yaml
Manifest(id) == jobs[id].config.dependencies

\* the jobs of the index that have a dependency dict with job == id
DependentsOf(id) ==
    {e.id : e \in {x \in Range(index) :
                      \E d \in Range(x.dependencies) : "job" \in DOMAIN d /\ d.job = id}}

\* the job ids a message names
NamedIds(message) == Range(message) \cap Range(Uuids)

WriteBits == {S_IWUSR, S_IWGRP, S_IWOTH}

\* C1: after any sequence of completed commit, remove and rebuild_index calls
\* the keys of the index are exactly the job directories under jobs/, one key
\* for each.
C1_IndexKeysAreJobDirs ==
    /\ IndexKeys(index) = DOMAIN jobs
    /\ Len(index) = Cardinality(DOMAIN jobs)

\* a rebuild of the index after two commits and a remove
C1_Witness ==
    /\ last.op = "rebuild_index"
    /\ Cardinality(used) = 2
    /\ Cardinality(DOMAIN jobs) = 1

\* C2: when remove(j) has succeeded, no manifest of a job that is left in
\* jobs/ holds a dependency whose job is j.
C2_RemoveSafety ==
    (last.op = "remove" /\ last.err = OK) =>
        \A k \in DOMAIN jobs : \A d \in Range(Manifest(k)) :
            "job" \in DOMAIN d => d.job # last.arg

\* a remove that succeeded and left another job behind
C2_Witness ==
    /\ last.op = "remove"
    /\ last.err = OK
    /\ DOMAIN jobs # {}

\* C3: remove(j) of a job of the repository that an entry of the index
\* depends on fails with the HasDependents error, the error names the ids of
\* the dependent jobs, and jobs/ (the modes in it too) and the index stay as
\* they were.
C3_RemoveWithDependentsFails ==
    [][(/\ last'.op = "remove"
        /\ last'.arg \in DOMAIN jobs
        /\ DependentsOf(last'.arg) # {})
       => (/\ last'.err = HasDependents
           /\ NamedIds(last'.out) = DependentsOf(last'.arg)
           /\ jobs' = jobs
           /\ index' = index)]_vars

\* a remove that was refused for a dependent job
C3_Witness ==
    /\ last.op = "remove"
    /\ last.err = HasDependents
    /\ last.arg \in DOMAIN jobs

FilesAndRoot(id) ==
    {p \in DOMAIN jobs[id].tree : jobs[id].tree[p].type = "file" \/ p = <<>>}

C6_CommittedDependenciesResolved ==
    /\ \A id \in DOMAIN jobs : \A d \in Range(Manifest(id)) :
          FromDict(d).kind \in {"job", "git"}
    /\ \A e \in Range(index) : \A d \in Range(e.dependencies) :
          FromDict(d).kind \in {"job", "git"}

\* a job was committed with a query dependency: its manifest holds the
\* dependency with the query it came from
C6_Witness ==
    \E id \in DOMAIN jobs : \E d \in Range(Manifest(id)) :
        "job" \in DOMAIN d /\ "query" \in DOMAIN d

\* the tags a well-formed query names
TagsOfQuery ==
    [q \in {"#a", "#a #b", "#c"} |->
        CASE q = "#a" -> {TagA}
          [] q = "#a #b" -> {TagA, TagB}
          [] q = "#c" -> {<<"c">>}]

\* the jobs of the index that carry all tags of the query
Matching(q) == {e.id : e \in {x \in Range(index) : TagsOfQuery[q] \subseteq Range(x.tags)}}

\* the query of a query dependency dict
QueryOf(d) == IF "query" \in DOMAIN d THEN d.query ELSE d.query_all

\* the source of a dependency dict as str(Path(..)) writes it
SourceOf(d) == IF "source" \in DOMAIN d /\ d.source # <<"">> THEN d.source ELSE <<".">>

\* C7, resolve: a QueryDep whose tags some job of the index carries resolves
\* to one JobDep: its job is a job with those tags of the greatest
\* committed_at, its source, destination and query are those of the QueryDep.
C7_Resolve ==
    \A d \in {x \in QueryDicts : "query" \in DOMAIN x /\ x.query \in DOMAIN TagsOfQuery} :
        Matching(d.query) # {} =>
            LET r == Resolve(FromDict(d))
            IN /\ r.err = OK
               /\ Len(r.val) = 1
               /\ r.val[1].kind = "job"
               /\ r.val[1].job \in Matching(d.query)
               /\ \A m \in Matching(d.query) :
                     IndexEntry(index, m).datetime
                         <= IndexEntry(index, r.val[1].job).datetime
               /\ StrOf(r.val[1].source) = SourceOf(d)
               /\ StrOf(r.val[1].destination) = d.destination
               /\ r.val[1].query = d.query
               /\ r.val[1].query_all = None

\* C7, commit: the commit of a job whose only dependency is such a QueryDep
\* stores that JobDep, and nothing else, in the manifest.
C7_Commit ==
    \A d \in {x \in QueryDicts : "query" \in DOMAIN x /\ x.query \in DOMAIN TagsOfQuery} :
        (/\ last'.op = "commit"
         /\ last'.arg.deps = <<d>>
         /\ Matching(d.query) # {})
        => (/\ last'.err = OK
            /\ jobs'[last'.out[1]].config.dependencies
                 = <<[job |-> Resolve(FromDict(d)).val[1].job,
                      source |-> SourceOf(d),
                      destination |-> d.destination,
                      query |-> d.query]>>)

\* C7: resolving a QueryDep gives the JobDep of the latest job with its tags,
\* and commit stores exactly that JobDep.
C7_QueryDepResolvesToLatest == []C7_Resolve /\ [][C7_Commit]_vars

\* a job was committed with a QueryDep while two jobs carried its tag, one
\* committed a second after the other: the manifest names the later one
C7_Witness ==
    /\ last.op = "commit"
    /\ last.err = OK
    /\ last.arg.deps = <<QueryA>>
    /\ \E m1, m2 \in Matching("#a") :
          /\ IndexEntry(index, m1).datetime < IndexEntry(index, m2).datetime
          /\ Manifest(last.out[1])[1].job = m2

\* C8: a QueryAllDep whose tags some job of the index carries resolves to one
\* JobDep for each job of the index with those tags, none twice and none left
\* out; each has the destination d/<job id>, the source "." and the query_all
\* of the QueryAllDep, also when one job only has the tags.
C8_QueryAllOnePerJob ==
    \A d \in {x \in QueryDicts : "query_all" \in DOMAIN x /\ x.query_all \in DOMAIN TagsOfQuery} :
        Matching(d.query_all) # {} =>
            LET r == Resolve(FromDict(d))
            IN /\ r.err = OK
               /\ Len(r.val) = Cardinality(Matching(d.query_all))
               /\ {r.val[i].job : i \in 1..Len(r.val)} = Matching(d.query_all)
               /\ \A i \in 1..Len(r.val) :
                     /\ r.val[i].kind = "job"
                     /\ StrOf(r.val[i].destination) = d.destination \o <<r.val[i].job>>
                     /\ StrOf(r.val[i].source) = <<".">>
                     /\ r.val[i].query_all = d.query_all
                     /\ r.val[i].query = None

\* a job was committed with a QueryAllDep two jobs matched, while one job
\* only matches another QueryAllDep
C8_Witness ==
    /\ last.op = "commit"
    /\ last.err = OK
    /\ last.arg.deps = <<AllA>>
    /\ Len(Manifest(last.out[1])) = 2
    /\ Cardinality(Matching("#a #b")) = 1

\* the query dependencies whose query is well formed
WellFormed == {x \in QueryDicts : QueryOf(x) \in DOMAIN TagsOfQuery}

\* C9 as claimed: resolving a QueryDep or a QueryAllDep whose tags no job of
\* the index carries fails with Unresolvable, and so does the commit of a job
\* with such a dependency.
C9_NoMatchIsUnresolvable ==
    \A d \in WellFormed :
        Matching(QueryOf(d)) = {} =>
            /\ Resolve(FromDict(d)).err = Unresolvable
            /\ (last.op = "commit" /\ last.arg.deps = <<d>>) => last.err = Unresolvable

\* a dependency that was resolved is in the repository: the path of a JobDep
\* is there, the url of a GitDep is one of a mirrored repository and its
\* source is in the tree of its commit
Present(dep) ==
    IF dep.kind = "job"
    THEN dep.job \in DOMAIN jobs /\ dep.source \in DOMAIN jobs[dep.job].tree
    ELSE /\ dep.repository = GoodUrl
         /\ dep.commit = GoodCommit
         /\ dep.source \in {<<>>, <<"src">>, <<"src", "lib.py">>}

\* the first of the dependencies that is not in the repository
FirstAbsent(deps) ==
    deps[CHOOSE i \in 1..Len(deps) :
            ~Present(deps[i]) /\ \A j \in 1..(i - 1) : Present(deps[j])]

\* C10 as claimed: whenever a dependency of the job, after resolution, is not
\* in the repository, commit fails with MissingDependency, naming a dependency
\* that is not there; commit succeeds only if all are there.
C10_AbsentIsMissingDependency ==
    [][last'.op = "commit" =>
        LET r == ResolveWork(last'.arg)
        IN r.err = OK =>
            /\ (\E i \in 1..Len(r.deps) : ~Present(r.deps[i])) =>
                  /\ last'.err = MissingDependency
                  /\ Len(last'.out) = 1
                  /\ ~Present(last'.out[1])
            /\ last'.err = OK => \A i \in 1..Len(r.deps) : Present(r.deps[i])]_vars

\* C10, amended: commit succeeds only if every dependency of the job, after
\* resolution, is in the repository.  When one is not, commit fails: with
\* UnrecognisedUrl when the first that is not there is a GitDep whose url is
\* not recognised, and with MissingDependency naming the first that is not
\* there otherwise.
C10_AbsentFailsCommit ==
    [][last'.op = "commit" =>
        LET r == ResolveWork(last'.arg)
        IN r.err = OK =>
            /\ (\E i \in 1..Len(r.deps) : ~Present(r.deps[i])) =>
                  LET d == FirstAbsent(r.deps)
                  IN IF d.kind = "git" /\ RepositoryPath(d.repository).err # OK
                     THEN last'.err = UnrecognisedUrl
                     ELSE last'.err = MissingDependency /\ last'.out = <<d>>
            /\ last'.err = OK => \A i \in 1..Len(r.deps) : Present(r.deps[i])]_vars

\* a commit failed for its second dependency, a job that is not there, the
\* first being in the mirrored repository
C10_Witness ==
    /\ last.op = "commit"
    /\ last.err = MissingDependency
    /\ last.arg.deps = <<GitOk, JobDict(Uuids[1])>>
    /\ last.out[1].kind = "job"

\* the tokens of each query string between single spaces, as written
TokensAsWritten ==
    [q \in DOMAIN Chars |->
        CASE q = "#a" -> <<"#a">>
          [] q = "#a #b" -> <<"#a", "#b">>
          [] q = "#c" -> <<"#c">>
          [] q = "a" -> <<"a">>
          [] q = "" -> <<"">>
          [] q = "#a  #b" -> <<"#a", "", "#b">>
          [] q = " #a" -> <<"", "#a">>
          [] q = "#a #b " -> <<"#a", "#b", "">>]

\* the tokens of each query string between single spaces, once the white
\* space at its two ends is taken off
TokensOfStripped ==
    [q \in DOMAIN Chars |->
        CASE q = " #a" -> <<"#a">>
          [] q = "#a #b " -> <<"#a", "#b">>
          [] OTHER -> TokensAsWritten[q]]

\* a token that does not start with #
NotATag(token) == token \notin {"#a", "#b", "#c"}

\* C11 as claimed: resolving a query fails with InvalidQuery, and gives no
\* JobDep, whenever one of the tokens of the query string between single
\* spaces does not start with #.
C11_BadTokenIsInvalidQuery ==
    \A d \in QueryDicts :
        (\E t \in Range(TokensAsWritten[QueryOf(d)]) : NotATag(t))
        => /\ Resolve(FromDict(d)).err = InvalidQuery
           /\ Resolve(FromDict(d)).val = <<>>

\* C11, amended: resolving a query fails with InvalidQuery, and gives no
\* JobDep, whenever one of the tokens between single spaces of the query
\* string without the white space at its ends does not start with #: the
\* blank query and a query with two spaces in a row are such queries.
C11_BadTokenOfStrippedIsInvalidQuery ==
    \A d \in QueryDicts :
        (\E t \in Range(TokensOfStripped[QueryOf(d)]) : NotATag(t))
        => /\ Resolve(FromDict(d)).err = InvalidQuery
           /\ Resolve(FromDict(d)).val = <<>>

\* the commit of a job with a query that has no # failed, while a job is
\* there that carries the tag the query names
C11_Witness ==
    /\ last.op = "commit"
    /\ last.arg.deps = <<QueryBad>>
    /\ last.err = InvalidQuery
    /\ \E e \in Range(index) : TagA \in Range(e.tags)

\* C12: a commit that fails with InvalidQuery, Unresolvable or
\* MissingDependency leaves jobs/ and the index as they were: no job
\* directory was made and no index entry written when the failure is raised.
C12_FailedCommitChangesNothing ==
    [][(/\ last'.op = "commit"
        /\ last'.err \in {InvalidQuery, Unresolvable, MissingDependency})
       => (jobs' = jobs /\ index' = index)]_vars

\* a commit failed with Unresolvable in a repository that holds a job
C12_Witness ==
    /\ last.op = "commit"
    /\ last.err = Unresolvable
    /\ DOMAIN jobs # {}
    /\ index # <<>>

\* the tag lists find is looked at for
FindTags == {<<>>, <<TagA>>, <<TagB>>, <<TagA, TagB>>, <<TagB, TagA>>, <<<<"c">>>>}

\* the jobs of the index that carry all the tags
IndexedWith(tags) == {e.id : e \in {x \in Range(index) : Range(tags) \subseteq Range(x.tags)}}

\* the datetime the index holds for a job
DatetimeOf(id) == IndexEntry(index, id).datetime

\* C13: find(tags, latest=False) returns the jobs of the index whose tags
\* include all the tags given, each once, in ascending order of datetime;
\* without tags it returns every job of the index.
C13_FindAllSortedByDatetime ==
    \A tags \in FindTags :
        LET r == Find(tags, FALSE)
        IN /\ r.err = OK
           /\ Range(r.val) = IndexedWith(tags)
           /\ Len(r.val) = Cardinality(IndexedWith(tags))
           /\ \A i, j \in 1..Len(r.val) : i < j => DatetimeOf(r.val[i]) <= DatetimeOf(r.val[j])
           /\ tags = <<>> => Range(r.val) = IndexKeys(index)

\* a job was committed with a QueryAllDep that found two jobs: the index
\* holds the later one before the earlier one, the manifest the earlier first
C13_Witness ==
    /\ last.op = "commit"
    /\ last.err = OK
    /\ last.arg.deps = <<AllA>>
    /\ Len(Manifest(last.out[1])) = 2
    /\ DatetimeOf(Manifest(last.out[1])[1].job) < DatetimeOf(Manifest(last.out[1])[2].job)
    /\ \E i, j \in 1..Len(index) :
          /\ i < j
          /\ index[i].id = Manifest(last.out[1])[2].job
          /\ index[j].id = Manifest(last.out[1])[1].job

\* C14 as claimed: find(tags, latest=True) returns the empty list, and does
\* not raise, when no job of the index carries the tags; when some do, it
\* returns one job, one of them with the greatest datetime.
C14_FindLatestEmptyOrNewest ==
    \A tags \in FindTags :
        LET r == Find(tags, TRUE)
        IN /\ r.err = OK
           /\ IndexedWith(tags) = {} => r.val = <<>>
           /\ IndexedWith(tags) # {} =>
                 /\ Len(r.val) = 1
                 /\ r.val[1] \in IndexedWith(tags)
                 /\ \A m \in IndexedWith(tags) : DatetimeOf(m) <= DatetimeOf(r.val[1])

\* C15 as claimed: what a QueryDep resolves to depends on the jobs of the
\* repository, their tags and their committed_at only, not on the order of
\* the index: loading the index again, or rebuilding it, which leave the
\* jobs and the entries as they are, leave every QueryDep resolving to the
\* same job, also when two jobs with the tags were committed in one second.
C15_ResolveIgnoresIndexOrder ==
    [][(/\ last'.op \in {"open", "rebuild_index"}
        /\ jobs' = jobs
        /\ Range(index') = Range(index))
       => \A d \in {x \in QueryDicts : "query" \in DOMAIN x} :
             Resolve(FromDict(d))' = Resolve(FromDict(d))]_vars

\* C16 as claimed: the JobDeps a QueryAllDep resolves to are in ascending
\* order of the committed_at of their jobs, and jobs of one committed_at are
\* in ascending order of job id, whatever the order of the index.
C16_QueryAllOrderedByTimeThenId ==
    \A d \in {x \in QueryDicts : "query_all" \in DOMAIN x} :
        LET r == Resolve(FromDict(d))
        IN r.err = OK =>
              \A i, j \in 1..Len(r.val) :
                 i < j =>
                    \/ DatetimeOf(r.val[i].job) < DatetimeOf(r.val[j].job)
                    \/ /\ DatetimeOf(r.val[i].job) = DatetimeOf(r.val[j].job)
                       /\ IdOrd(r.val[i].job) < IdOrd(r.val[j].job)

\* the hashes in the manifest of a committed job
HashesOf(id) == jobs[id].config.hashes

\* the files copied into a committed job, with their bytes
CopiedFiles(id) ==
    {<<p, jobs[id].tree[p].content>> :
        p \in {q \in DOMAIN jobs[id].tree : "content" \in DOMAIN jobs[id].tree[q]}}

\* C17: two committed jobs that were committed from the same source tree with
\* the same resolved dependencies have the same hashes, the "." entry
\* included, whatever their ids, their committed_at and their metadata.
C17_HashStability ==
    \A j, k \in DOMAIN jobs :
        (CopiedFiles(j) = CopiedFiles(k) /\ Manifest(j) = Manifest(k))
        => HashesOf(j) = HashesOf(k)

\* one working directory with a query dependency was committed twice, a
\* second apart: two jobs with files and a dependency
C17_Witness ==
    \E j, k \in DOMAIN jobs :
        /\ j # k
        /\ CopiedFiles(j) = CopiedFiles(k)
        /\ CopiedFiles(j) # {}
        /\ Manifest(j) = Manifest(k)
        /\ Manifest(j) # <<>>
        /\ jobs[j].metadata.committed_at # jobs[k].metadata.committed_at

\* the paths of the files copied into a committed job
CopiedPaths(id) == {q \in DOMAIN jobs[id].tree : "content" \in DOMAIN jobs[id].tree[q]}

\* the destinations of the dependencies in the manifest of a committed job
Destinations(id) == {StrOf(PathOf(d.destination)) : d \in Range(Manifest(id))}

\* C18 as claimed: the keys of hashes in the manifest of a committed job are
\* the paths of the copied files, the destinations of the dependencies and
\* "."; r3.yaml, metadata.yaml and the paths under output/ are not among
\* them; a job without files and dependencies has hashes {".": hash_str("")}.
C18_HashesKeys ==
    \A id \in DOMAIN jobs :
        /\ DOMAIN HashesOf(id) = CopiedPaths(id) \cup Destinations(id) \cup {<<".">>}
        /\ R3Yaml \notin DOMAIN HashesOf(id)
        /\ MetadataYaml \notin DOMAIN HashesOf(id)
        /\ \A k \in DOMAIN HashesOf(id) : Head(k) # "output"
        /\ (CopiedPaths(id) = {} /\ Manifest(id) = <<>>)
              => HashesOf(id) = [k \in {<<".">>} |-> HashStr(<<>>)]

\* C19 as claimed: when commit has returned, the output directory of the job
\* it committed is there and nothing is in it.
C19_OutputEmptyAfterCommit ==
    (last.op = "commit" /\ last.err = OK) =>
        LET tree == jobs[last.out[1]].tree
        IN /\ Output \in DOMAIN tree
           /\ tree[Output].type = "dir"
           /\ \A p \in DOMAIN tree : ~(Len(p) > 1 /\ Head(p) = "output")

\* C20: a rebuild_index that follows a rebuild_index, with no other call in
\* between, leaves the index with the keys and the entries it had, and so
\* index.yaml as it was.
C20_RebuildIdempotent ==
    [][(last.op = "rebuild_index" /\ last'.op = "rebuild_index")
       => (/\ Range(index') = Range(index)
           /\ Len(index') = Len(index)
           /\ LoadIndex(index') = LoadIndex(index))]_vars

\* the index was rebuilt for three jobs, one of them with a dependency, in
\* an order that is not the order of index.yaml
C20_Witness ==
    /\ last.op = "rebuild_index"
    /\ Len(index) = 3
    /\ index # LoadIndex(index)
    /\ \E e \in Range(index) : e.dependencies # <<>>

\* what jobs/<id> holds of an index entry: the tags and committed_at of its
\* metadata.yaml and the dependencies of its r3.yaml
Projection(id) ==
    [id |-> id,
     tags |-> IF "tags" \in DOMAIN jobs[id].metadata THEN jobs[id].metadata.tags ELSE <<>>,
     datetime |-> jobs[id].metadata.committed_at,
     dependencies |-> Manifest(id)]

\* the index as a dict: what it maps each of its keys to
AsDict(idx) == [id \in IndexKeys(idx) |-> IndexEntry(idx, id)]

\* C21: when a commit or a rebuild_index has returned, the index has one
\* entry for each directory of jobs/ and each entry is the projection of its
\* job; and when a commit or a remove has returned, the index is, as a dict,
\* the index a rebuild_index of jobs/ gives, whatever the order of the scan.
C21_IndexIsProjection ==
    /\ (last.op \in {"commit", "rebuild_index"} /\ last.err = OK) =>
          /\ IndexKeys(index) = DOMAIN jobs
          /\ Len(index) = Cardinality(DOMAIN jobs)
          /\ \A i \in 1..Len(index) : index[i] = Projection(index[i].id)
    /\ (last.op \in {"commit", "remove"} /\ last.err = OK) =>
          \A order \in Perms(DOMAIN jobs) :
              AsDict(index) = AsDict(AddAll(<<>>, jobs, order))

\* a commit has returned after a job was removed: the index has two entries,
\* one with tags and one with a dependency
C21_Witness ==
    /\ last.op = "commit" /\ last.err = OK
    /\ used \ DOMAIN jobs # {}
    /\ Len(index) = 2
    /\ \E i \in 1..Len(index) : index[i].tags # <<>>
    /\ \E i \in 1..Len(index) : index[i].dependencies # <<>>

\* the resolved dependencies at hand: what resolve makes of each query, a
\* dependency on each job of the repository, on the whole of it and on its
\* output, and the dependencies on the git repository
ResolvedNow ==
    UNION {Range(Resolve(FromDict(q)).val) : q \in {d \in QueryDicts : Resolve(FromDict(d)).err = OK}}
    \cup {JobDependency(id, <<"data">>, source, None, None) :
              id \in DOMAIN jobs, source \in {<<"">>, <<".">>, Output}}
    \cup {GitDependency(GoodUrl, GoodCommit, <<"lib">>, source) :
              source \in {<<"">>, <<"src">>}}

\* C26: from_dict of the to_dict of a resolved dependency is a dependency of
\* the same class with the same job, or repository and commit, the same
\* source and destination and the same query and query_all; a dict that has
\* the keys job and query is read as a JobDependency.
C26_RoundTrip ==
    \A dep \in ResolvedNow :
        /\ FromDict(ToDict(dep)) = dep
        /\ (dep.kind = "job" /\ dep.query # None) =>
              /\ {"job", "query"} \subseteq DOMAIN ToDict(dep)
              /\ FromDict(ToDict(dep)).kind = "job"

\* a query and a query_all resolve, the second to two jobs
C26_Witness ==
    /\ \E dep \in ResolvedNow : dep.kind = "job" /\ dep.query # None
    /\ Cardinality({dep \in ResolvedNow : dep.kind = "job" /\ dep.query_all = "#a"}) = 2

\* what is stored of the job at jobs/<id>: its r3.yaml, its metadata.yaml and
\* its files with their bytes
Stored(id) ==
    [config |-> jobs[id].config, metadata |-> jobs[id].metadata, files |-> CopiedFiles(id)]

\* C27: whatever the repository is asked to do, a committed job is still
\* there after the call, with the r3.yaml, the metadata.yaml and the files it
\* had, unless the call was a remove of this job that succeeded.
C27_CommittedJobsImmutable ==
    [][\A id \in DOMAIN jobs :
           ~(last'.op = "remove" /\ last'.arg = id /\ last'.err = OK)
           => (id \in DOMAIN jobs' /\ Stored(id)' = Stored(id))]_vars

\* a job was removed and a job with files and a dependency is still there
C27_Witness ==
    /\ last.op = "remove" /\ last.err = OK
    /\ \E id \in DOMAIN jobs : Manifest(id) # <<>> /\ CopiedFiles(id) # {}

\* C28: a commit that succeeds adds one directory to jobs/, under an id no
\* job has or had, and leaves the other directories as they were; the job it
\* returns has that id and is the job at jobs/<id>; the files of the working
\* directory are in it at their relative paths, nested ones too, with the
\* bytes of the source, and no other copied file is.
C28_CommitCreatesOneFreshJob ==
    [][(last'.op = "commit" /\ last'.err = OK) =>
          \E id \in JobIds :
              /\ last'.out = <<id>>
              /\ id \notin used /\ id \notin DOMAIN jobs
              /\ DOMAIN jobs' = DOMAIN jobs \cup {id}
              /\ \A k \in DOMAIN jobs : jobs'[k] = jobs[k]
              /\ CopiedFiles(id)' = {<<p, FileContent[p]>> : p \in last'.arg.files}]_vars

\* a working directory with a file in a subdirectory was committed next to an
\* older job, after a job had been removed
C28_Witness ==
    /\ last.op = "commit" /\ last.err = OK
    /\ CodeRunPy \in last.arg.files
    /\ Cardinality(DOMAIN jobs) = 2
    /\ used \ DOMAIN jobs # {}

\* C24: after checkout of a committed job into a new directory, every child
\* of jobs/<id> but r3.yaml, metadata.yaml and output is in the directory as
\* a copy, with what is below it; output is a link to jobs/<id>/output; for
\* every dependency on a job there is a link at its destination to
\* jobs/<job>/<source>; and there is no r3.yaml and no metadata.yaml.
C24_CheckoutMaterialises ==
    (last.op = "checkout" /\ last.err = OK) =>
        LET id == last.arg
            dest == last.out
            tree == jobs[id].tree
        IN /\ \A p \in DOMAIN tree :
                 (p # <<>> /\ Head(p) \notin {"r3.yaml", "metadata.yaml", "output"})
                 => (p \in DOMAIN dest /\ dest[p] = tree[p]
                     /\ dest[p].type \in {"file", "dir"})
           /\ Output \in DOMAIN dest
           /\ dest[Output] = [type |-> "link", target |-> <<"jobs", id, "output">>]
           /\ \A i \in 1..Len(Manifest(id)) :
                 LET d == Manifest(id)[i]
                 IN "job" \in DOMAIN d =>
                       /\ PathOf(d.destination) \in DOMAIN dest
                       /\ dest[PathOf(d.destination)] =
                             [type |-> "link",
                              target |-> <<"jobs", d.job>> \o PathOf(Get(d, "source", <<"">>))]
           /\ R3Yaml \notin DOMAIN dest
           /\ MetadataYaml \notin DOMAIN dest

\* a job whose dependency came from a query for the output of another job
\* was checked out, its run.py with it
C24_Witness ==
    /\ last.op = "checkout" /\ last.err = OK
    /\ RunPy \in DOMAIN last.out
    /\ \E i \in 1..Len(Manifest(last.arg)) :
          /\ {"job", "query"} \subseteq DOMAIN Manifest(last.arg)[i]
          /\ Manifest(last.arg)[i].source = Output

\* C25: Repository.init of a path that is there fails with FileExistsError
\* and leaves the path, jobs/ and the index as they were; of a path that is
\* not there it succeeds, and then the path is a repository: it has r3.yaml
\* with the version, jobs and git, nothing is in jobs/ and find([]) finds no
\* job.
C25_InitFailsOnExistingPath ==
    [][(last'.op = "init") =>
          IF root.exists
          THEN /\ last'.err = PathExists
               /\ UNCHANGED <<root, jobs, index, file, clock, used>>
          ELSE /\ last'.err = OK
               /\ Opened'
               /\ {"r3.yaml", "jobs", "git"} \subseteq root'.entries
               /\ root'.version = R3_FORMAT_VERSION
               /\ DOMAIN jobs' = {}
               /\ Find(<<>>, FALSE)'.err = OK
               /\ Find(<<>>, FALSE)'.val = <<>>]_vars

\* init was called for the path of a repository that has jobs
C25_Witness ==
    /\ last.op = "init" /\ last.err = PathExists
    /\ Opened
    /\ DOMAIN jobs # {}

\* the commit that is under way, and the commit that was killed last
Commits ==
    {c \in {writer} \cup (IF last.op = "crash" THEN {last.arg} ELSE {}) :
        c.op = "commit" /\ c.id \in DOMAIN jobs}

\* the directory has no write bit
DirSealed(id) == jobs[id].tree[<<>>].mode \cap WriteBits = {}

\* C22: between any two steps of a commit, and after the commit was killed,
\* a job directory that has no write bit holds all the commit puts in it:
\* r3.yaml, metadata.yaml, output/ and the files, as they are when the commit
\* returns.
C22_SealedDirIsPopulated ==
    \A c \in Commits :
        DirSealed(c.id) => jobs[c.id] = CommittedJob(c.arg, c.deps, c.dicts, c.now)

\* a commit of a working directory with a file in a subdirectory was killed
\* when the directory had lost its write bits and the index had no entry yet
C22_Witness ==
    /\ last.op = "crash"
    /\ last.arg.op = "commit" /\ last.arg.pc = "add_index"
    /\ CodeRunPy \in last.arg.arg.files
    /\ DirSealed(last.arg.id)

\* C23 as claimed: index.yaml, whenever it is there, is a whole dump of an
\* index; and while it is being saved it is the file as it was or the dump
\* of the new index.
C23_IndexFileReplacedAtomically ==
    /\ file.exists => file.complete
    /\ writer.pc = "dump" => file \in {writer.before, Dumped(index)}

\* C29 as claimed: in a commit, r3.yaml or metadata.yaml is without write
\* bits only when all files are copied; and the index has the entry of the
\* job only when the directory has lost its write bits and is as it is when
\* the commit returns.
C29_CommitOrder ==
    \A c \in Commits :
        /\ \A y \in {R3Yaml, MetadataYaml} :
              (y \in DOMAIN jobs[c.id].tree /\ jobs[c.id].tree[y].mode \cap WriteBits = {})
              => c.arg.files \subseteq DOMAIN jobs[c.id].tree
        /\ c.id \in IndexKeys(index) =>
              /\ DirSealed(c.id)
              /\ jobs[c.id] = CommittedJob(c.arg, c.deps, c.dicts, c.now)

\* a commit was killed before it changed the index, with its directory made
Interrupted ==
    /\ last.op = "crash"
    /\ last.arg.op = "commit"
    /\ last.arg.pc \in Range(CommitOrder) \cup {"seal_file"}
    /\ last.arg.id \in DOMAIN jobs

\* C30 as claimed: the directory a killed commit leaves behind has no index
\* entry and no job of the index depends on it, and when a rebuild_index that
\* follows has returned, the index has no entry for it.
C30_OrphanStaysOutOfIndex ==
    [][Interrupted =>
          /\ writer = Idle =>
                /\ last.arg.id \notin IndexKeys(index)
                /\ \A i \in 1..Len(index) : \A j \in 1..Len(index[i].dependencies) :
                      Get(index[i].dependencies[j], "job", None) # last.arg.id
          /\ last'.op = "rebuild_index" => last.arg.id \notin IndexKeys(index')]_vars

\* dependency lists with resolved dependencies, a QueryDep and QueryAllDeps
\* side by side
OrderLists ==
    {<<GitOk, AllA, QueryA, JobDict(Uuids[1])>>,
     <<AllA, AllAB>>,
     <<QueryAB, JobDict(Uuids[1]), AllA, GitOk>>,
     <<GitOk, JobDict(Uuids[1])>>}

\* how many dependencies the entry of a dependency list resolves to
Width(d) == IF "query_all" \in DOMAIN d THEN Cardinality(Matching(d.query_all)) ELSE 1

\* the position in the resolved list of the first dependency that comes from
\* entry i of the list
RECURSIVE StartOf(_, _)
StartOf(list, i) == IF i = 1 THEN 1 ELSE StartOf(list, i - 1) + Width(list[i - 1])

\* C31: when resolve of a job succeeds, the resolved list is the original
\* list with each entry replaced in its place: a resolved dependency by
\* itself, a QueryDep by one JobDep with its query, source and destination, a
\* QueryAllDep by a run of JobDeps with its query_all, one for each matching
\* job; and the dict at each position of config["dependencies"] reads back
\* as the dependency at that position.
C31_ResolveKeepsPositions ==
    \A list \in OrderLists :
        LET r == ResolveWork([metadata |-> NoMetadata, files |-> {RunPy}, deps |-> list])
            n == Len(list)
        IN r.err = OK =>
             /\ Len(r.deps) = StartOf(list, n + 1) - 1
             /\ \A i \in 1..n :
                   LET dep == FromDict(list[i])
                       from == StartOf(list, i)
                       run == from..(StartOf(list, i + 1) - 1)
                   IN CASE dep.kind \in {"job", "git"} -> run = {from} /\ r.deps[from] = dep
                        [] dep.kind = "query" ->
                             /\ run = {from}
                             /\ r.deps[from].kind = "job"
                             /\ r.deps[from].query = dep.query
                             /\ r.deps[from].source = dep.source
                             /\ r.deps[from].destination = dep.destination
                        [] OTHER ->
                             /\ run # {}
                             /\ {r.deps[k].job : k \in run} = Matching(dep.query_all)
                             /\ \A k \in run :
                                   /\ r.deps[k].kind = "job"
                                   /\ r.deps[k].query_all = dep.query_all
                                   /\ r.deps[k].destination = dep.destination \o <<r.deps[k].job>>
             /\ Len(r.dicts) = Len(r.deps)
             /\ \A k \in 1..Len(r.deps) : FromDict(r.dicts[k]) = r.deps[k]

\* a list with a QueryAllDep between a git dependency and a QueryDep
\* resolves while two jobs match the QueryAllDep: five dependencies, the two
\* of the QueryAllDep second and third
C31_Witness ==
    LET r == ResolveWork([metadata |-> NoMetadata, files |-> {RunPy},
                          deps |-> <<GitOk, AllA, QueryA, JobDict(Uuids[1])>>])
    IN /\ r.err = OK
       /\ Len(r.deps) = 5
       /\ r.deps[2].query_all = "#a" /\ r.deps[3].query_all = "#a"
       /\ r.deps[4].query = "#a"

\* the patterns of shape "/d/..." with the "/d" taken off
InForce(patterns, d) ==
    {SubSeq(p, Len(SlashName(d)) + 1, Len(p)) :
        p \in {q \in patterns : StartsWith(q, SlashName(d) \o <<"/">>)}}

\* the files below dir none of whose components from dir on is ignored,
\* where patterns are the patterns in force for the children of dir
RECURSIVE NotIgnoredBelow(_, _, _)
NotIgnoredBelow(files, dir, patterns) ==
    {f \in files :
        /\ Len(f) > Len(dir) /\ SubSeq(f, 1, Len(dir)) = dir
        /\ LET name == f[Len(dir) + 1]
           IN /\ SlashName(name) \notin patterns
              /\ Len(f) > Len(dir) + 1
                    => f \in NotIgnoredBelow(files, Append(dir, name), InForce(patterns, name))}

\* C32 as claimed: find_files returns, each once, the files of the tree none
\* of whose path components is ignored at its level, where the patterns in
\* force below a directory d are the patterns "/d/..." without the "/d";
\* and it returns the same files whatever the order of iterdir.
C32_FindFilesExact ==
    last.op = "find_files" =>
        /\ last.err = OK
        /\ Range(last.out) = NotIgnoredBelow(last.arg.path, <<>>, last.arg.ignore_patterns)
        /\ Len(last.out) = Cardinality(Range(last.out))
        /\ \A order \in Orders :
              Range(FindFiles(last.arg.path, last.arg.ignore_patterns, order).val)
                  = Range(last.out)

\* path is dir or lies below it
AtOrUnder(path, dir) == Len(path) >= Len(dir) /\ SubSeq(path, 1, Len(dir)) = dir

\* C33 as claimed: in a committed job no copied file, and no key of hashes
\* that stands for a file, is at or under the destination of a dependency of
\* its manifest.
C33_NoFileUnderDestination ==
    \A id \in DOMAIN jobs : \A d \in Range(Manifest(id)) :
        \A p \in CopiedPaths(id) \cup (DOMAIN HashesOf(id) \ (Destinations(id) \cup {<<".">>})) :
            ~AtOrUnder(p, PathOf(d.destination))

\* C34: whatever commits, removes and rebuilds of the index were made, every
\* dependency on a job in the manifest of a job of jobs/ names a job whose
\* directory is in jobs/.
C34_NoDanglingJobDependency ==
    \A k \in DOMAIN jobs : \A d \in Range(Manifest(k)) :
        "job" \in DOMAIN d => d.job \in DOMAIN jobs

\* a job was removed while another job with a dependency on a third job
\* stays, and a remove of the job depended on was refused before
C34_Witness ==
    /\ last.op = "remove"
    /\ last.err = OK
    /\ \E k \in DOMAIN jobs : \E d \in Range(Manifest(k)) :
          "job" \in DOMAIN d /\ d.job \in DOMAIN jobs /\ d.job # k

\* the job the query of a stored dependency would be resolved to now
ResolvedNowTo(d) ==
    ResolveQueryDependency(QueryDependency(d.query, d.destination, Get(d, "source", <<"">>)))

\* a directory os.makedirs has made
NewDirectory == [p \in {<<>>} |-> [type |-> "dir", mode |-> NewDirMode]]

\* what a commit or a rebuild_index leaves of the jobs that were there: the
\* manifest, and the links a checkout makes for the dependencies that came
\* from a query
C35_StoredDependencyStays ==
    last'.op \in {"commit", "rebuild_index"} =>
        \A b \in DOMAIN jobs :
            /\ b \in DOMAIN jobs'
            /\ Manifest(b)' = Manifest(b)
            /\ \A d \in Range(Manifest(b)) :
                  "query" \in DOMAIN d =>
                      CheckoutJobDependency(NewDirectory, FromDict(d))'
                          = CheckoutJobDependency(NewDirectory, FromDict(d))

\* the link a checkout makes for a dependency that came from a query
C35_CheckoutOfStored ==
    (last.op = "checkout" /\ last.err = OK) =>
        \A d \in Range(Manifest(last.arg)) :
            "query" \in DOMAIN d =>
                last.out[PathOf(d.destination)] =
                    [type |-> "link",
                     target |-> <<"jobs", d.job>> \o PathOf(Get(d, "source", <<"">>))]

\* C35: a commit or a rebuild_index changes no dependency in the manifest of
\* a job that was committed before, nor what a checkout of that job gives;
\* and a checkout links the destination of a dependency that came from a
\* query to jobs/<job>/<source> of the job in the manifest, whatever job the
\* query would be resolved to now.
C35_ResolutionFrozen == [][C35_StoredDependencyStays]_vars /\ []C35_CheckoutOfStored

\* a job was checked out whose manifest has a dependency that came from a
\* query, after a job with a later committed_at was committed that the query
\* is resolved to now
C35_Witness ==
    /\ last.op = "checkout" /\ last.err = OK
    /\ \E d \in Range(Manifest(last.arg)) :
          /\ "query" \in DOMAIN d
          /\ ResolvedNowTo(d).err = OK
          /\ ResolvedNowTo(d).val[1].job # d.job
          /\ IndexEntry(index, ResolvedNowTo(d).val[1].job).datetime
                > IndexEntry(index, d.job).datetime

====
